---- MODULE Spec2Model ----
(***************************************************************************)
(* Model of the TIO proxy engine of src/src/tio/proxy.rs: the RPC id remap *)
(* table with its deadline index, the client registry with scope-filtered  *)
(* fan-out, the device reconnection lifecycle and the rate autonegotiation *)
(* state machine, as run by the single thread of Proxy::run.               *)
(*                                                                         *)
(* Time is counted in units of 100 ms.  The status sink is taken to be     *)
(* present (send_event is a no-op without one); the events of the latest   *)
(* proxy step are kept in the variable events.                             *)
(***************************************************************************)
EXTENDS Integers, Sequences, FiniteSets, TLC

\* ------------------------------------------------------------------ bounds
MaxClients == 2      \* calls of Port::port in one run
MaxSent == 2         \* packets the clients put on their inbound queues in one run
MaxTime == 3         \* the clock stops advancing here
MaxTimeLong == 13    \* ... and here in the runs that wait for a second to pass
WireIds == 2         \* size of the wire id space in the model (the program's is 2^16)
InCap == 2           \* capacity of a client's inbound queue in the model (the program's is 32)
OutCap == 2          \* capacity of a client's outbound queue in the model (the program's is 256)
DevCap == 1          \* packets the transport task may have queued for the proxy

\* ------------------------------------------------------- program constants
InternalRpcTimeout == 10   \* Duration::from_secs(1)
CancelHorizon == 10000     \* Duration::from_secs(1000)
NoDataLimit == 10          \* Duration::from_millis(1000)
MinRpcTimeout == 1         \* Duration::from_millis(100)
MaxRpcTimeout == 600       \* Duration::from_secs(60)
DefaultRpcTimeout == 20    \* Duration::from_millis(2000)
NewClientCap == 5          \* channel::bounded::<ProxyClient>(5)

VARIABLES
    now,             \* Instant::now(), in units of 100 ms
    build,           \* "debug" or "release": whether integer overflow panics
    rate_info,       \* port.rate_info(): [has, target_bps, default_bps]
    reconnect_timeout, \* Proxy.reconnect_timeout: [has, t]
    pc,              \* position of Proxy::run
    cur,             \* the client whose queue is being drained (ids[index])
    device_present,  \* Proxy.device.is_some()
    device,          \* ProxyDevice: [rate_change_state, last_rx, last_session]
    dev_rx,          \* ProxyDevice.rx_channel: [q, alive]
    device_timeout,  \* run()'s local device_timeout
    port_alive,      \* the Port handle (sender of new_client_queue) is alive
    new_client_queue, \* Proxy.new_client_queue: ProxyClient records in flight
    nports,          \* number of successful Port::port calls
    next_client_id,  \* Proxy.next_client_id
    clients,         \* Proxy.clients: id -> [rpc_timeout, scope, forward_data, forward_nonrpc]
    clients_to_drop, \* run()'s local clients_to_drop
    client_rx,       \* per client, the inbound channel (client -> proxy): [q, alive]
    client_tx,       \* per client, the outbound channel (proxy -> client): [q, alive]
    next_rpc_id,     \* Proxy.next_rpc_id
    rpc_map,         \* Proxy.rpc_map: wire id -> RpcMapEntry
    rpc_timeouts,    \* Proxy.rpc_timeouts: deadline -> set of wire ids
    port_tx,         \* packets the port accepted (tio_port.send returned Ok) in the latest proxy step
    in_device,       \* requests the device has received and not answered
    events,          \* events sent to the status sink by the latest proxy step
    nsent,           \* number of packets the clients have put so far
    port_result      \* the latest call of Port::port: its rpc_timeout and what it returned

vars == <<now, build, rate_info, reconnect_timeout, pc, cur, device_present, device,
          dev_rx, device_timeout, port_alive, new_client_queue, nports,
          next_client_id, clients, clients_to_drop, client_rx, client_tx,
          next_rpc_id, rpc_map, rpc_timeouts, port_tx, in_device, events, nsent,
          port_result>>

\* ----------------------------------------------------------------- packets
\* Packet {payload, routing, ttl}.  payload is the variant's name; id is the
\* RPC id of the RPC variants; error the RpcErrorCode of an RpcError; value the
\* session of a heartbeat or the 4-byte little-endian value of a reply (-1 for
\* a reply shorter than 4 bytes).  uid is not part of the program: it names the
\* client request a packet is or answers (0 if none).
Pkt(payload, id, routing, error, value, uid) ==
    [payload |-> payload, id |-> id, routing |-> routing, error |-> error,
     value |-> value, uid |-> uid]

RpcFamily == {"RpcRequest", "RpcReply", "RpcError"}

\* util::PacketBuilder::new(routing).rpc_error(id, error)
rpc_error(routing, id, error, uid) == Pkt("RpcError", id, routing, error, 0, uid)

\* util::PacketBuilder::make_rpc_request(name, arg): the internal requests carry
\* id 0 and the root route; value is the argument, error field names the method
make_rpc_request(name, arg) == Pkt("RpcRequest", 0, <<>>, name, arg, 0)

\* ------------------------------------------------------------------ routes
\* DeviceRoute::relative_route: Ok(suffix) when abs lies inside scope, else Err
InScope(scope, abs) ==
    /\ Len(abs) >= Len(scope)
    /\ SubSeq(abs, 1, Len(scope)) = scope

relative_route(scope, abs) == SubSeq(abs, Len(scope) + 1, Len(abs))

\* DeviceRoute::absolute_route: scope prepended to rel
absolute_route(scope, rel) == scope \o rel

\* ---------------------------------------------------------------- channels
\* a channel whose try_send puts the message before the ones that wait
try_send_front(chan, cap, pkt) ==
    IF ~chan.alive THEN [chan |-> chan, res |-> "Disconnected"]
    ELSE IF Len(chan.q) >= cap THEN [chan |-> chan, res |-> "Full"]
    ELSE [chan |-> [chan EXCEPT !.q = <<pkt>> \o @], res |-> "Ok"]

\* crossbeam bounded channel seen from the sender: try_send
try_send(chan, cap, pkt) ==
    IF ~chan.alive THEN [chan |-> chan, res |-> "Disconnected"]
    ELSE IF Len(chan.q) >= cap THEN [chan |-> chan, res |-> "Full"]
    ELSE [chan |-> [chan EXCEPT !.q = Append(@, pkt)], res |-> "Ok"]

\* a try_recv that reports the disconnection before the messages that wait
try_recv_eager(chan) ==
    IF ~chan.alive THEN "Disconnected" ELSE IF chan.q # <<>> THEN "Ok" ELSE "Empty"

\* ... and from the receiver: try_recv gives Ok(head), Empty or Disconnected
try_recv(chan) ==
    IF chan.q # <<>> THEN "Ok" ELSE IF chan.alive THEN "Empty" ELSE "Disconnected"

\* Select: a receive is ready when a message waits or the channel is disconnected
Ready(chan) == chan.q # <<>> \/ ~chan.alive

\* ------------------------------------------------------------ ProxyClient
\* a forwarding policy that lets every payload pass
Admits_all(client, pkt) == TRUE

\* the forwarding policy of ProxyClient::send
Admits(client, pkt) ==
    IF pkt.payload \in RpcFamily THEN TRUE
    ELSE IF pkt.payload = "StreamData" THEN client.forward_data
    ELSE client.forward_nonrpc

\* ProxyClient::send: [chan, res]; res = "Ok" also when the packet is filtered out
ProxyClient_send(client, chan, pkt) ==
    IF ~InScope(client.scope, pkt.routing) THEN [chan |-> chan, res |-> "Ok"]
    ELSE IF ~Admits(client, pkt) THEN [chan |-> chan, res |-> "Ok"]
    ELSE try_send(chan, OutCap,
                  [pkt EXCEPT !.routing = relative_route(client.scope, pkt.routing)])

\* ProxyClient::recv that leaves the route as the client wrote it
ProxyClient_recv_relative(client, chan) == Head(chan.q)

\* ProxyClient::recv on a non-empty queue: the head with its route made absolute
ProxyClient_recv(client, chan) ==
    [Head(chan.q) EXCEPT !.routing = absolute_route(client.scope, @)]

\* ------------------------------------------------------------------ events
Ev(name, a, b, c) == [name |-> name, a |-> a, b |-> b, c |-> c]

\* Proxy::send_event
send_event(st, ev) == [st EXCEPT !.events = Append(@, ev)]

\* --------------------------------------------------------- the proxy state
\* The fields of Proxy that one step of run() may change, gathered so that the
\* methods below are functions from state to state.  panic is set when a step
\* reaches a failing unwrap() or an arithmetic overflow check.
St ==
    [rpc_map |-> rpc_map, rpc_timeouts |-> rpc_timeouts, next_rpc_id |-> next_rpc_id,
     client_tx |-> client_tx, port_tx |-> <<>>, in_device |-> in_device,
     device_present |-> device_present, device |-> device, events |-> <<>>,
     panic |-> FALSE]

Panic(st) == [st EXCEPT !.panic = TRUE]

\* remove key k from the function f
Without(f, k) == [x \in DOMAIN f \ {k} |-> f[x]]

\* f with k mapped to v (insert or overwrite)
With(f, k, v) == [x \in DOMAIN f \cup {k} |-> IF x = k THEN v ELSE f[x]]

\* clients[c].send(&pkt).unwrap()
send_unwrap(st, c, pkt) ==
    LET r == ProxyClient_send(clients[c], st.client_tx[c], pkt) IN
    IF r.res # "Ok" THEN Panic(st)
    ELSE [st EXCEPT !.client_tx[c] = r.chan]

\* bucket_remove that leaves the emptied bucket in the index
bucket_remove_unpruned(timeouts, timeout, wire_id) ==
    [timeouts EXCEPT ![timeout] = @ \ {wire_id}]

\* bucket_insert that replaces the bucket of the deadline by a new one
bucket_insert_fresh(timeouts, timeout, rpc_id) == With(timeouts, timeout, {rpc_id})

\* the deadline index after rpc_restore has taken wire_id out of the bucket of
\* its deadline: ids.remove(&wire_id), the bucket pruned when it is left empty
bucket_remove(timeouts, timeout, wire_id) ==
    LET ids == timeouts[timeout] \ {wire_id} IN
    IF ids = {} THEN Without(timeouts, timeout)
    ELSE [timeouts EXCEPT ![timeout] = ids]

\* the deadline index after forward_to_device has put rpc_id in the bucket of
\* its deadline, created when missing
bucket_insert(timeouts, timeout, rpc_id) ==
    LET t1 == IF timeout \in DOMAIN timeouts THEN timeouts ELSE With(timeouts, timeout, {})
    IN  [t1 EXCEPT ![timeout] = @ \cup {rpc_id}]

\* RpcRemap with the original id and the wire id exchanged
RpcRemap_swapped(client_id, id, wire_id) == Ev("RpcRemap", client_id, wire_id, id)

\* Event::RpcRemap((client_id, id), wire_id)
RpcRemap(client_id, id, wire_id) == Ev("RpcRemap", client_id, id, wire_id)

\* Proxy::rpc_restore: [st, found, id, client, uid]
rpc_restore(st, wire_id) ==
    IF wire_id \notin DOMAIN st.rpc_map
    THEN [st |-> st, found |-> FALSE, id |-> 0, client |-> 0, uid |-> 0]
    ELSE LET remap == st.rpc_map[wire_id]
             st1 == [st EXCEPT !.rpc_map = Without(@, wire_id)]
         IN  IF remap.timeout \notin DOMAIN st.rpc_timeouts
             THEN [st |-> Panic(st1), found |-> FALSE, id |-> 0, client |-> 0, uid |-> 0]
             ELSE LET st2 == [st1 EXCEPT !.rpc_timeouts =
                                 bucket_remove(@, remap.timeout, wire_id)]
                      st3 == send_event(st2, Ev("RpcRestore", wire_id, remap.client, remap.id))
                  IN  [st |-> st3, found |-> TRUE, id |-> remap.id,
                       client |-> remap.client, uid |-> remap.uid]

\* self.next_rpc_id += 1 on a 16-bit counter: wraps in a release build, panics
\* in a build with overflow checks
NextId(n) == (n + 1) % WireIds

\* forward_to_device that takes a wire id from the counter for every packet
forward_to_device_counting(st, pkt, client_id, send_ok) ==
    IF pkt.payload = "RpcRequest"
    THEN LET wire_id == st.next_rpc_id
             st1 == [st EXCEPT !.next_rpc_id = NextId(wire_id)]
         IN  IF wire_id + 1 >= WireIds /\ build = "debug"
             THEN [st |-> Panic(st), ret |-> "Ok", rpkt |-> pkt]
             ELSE IF wire_id \in DOMAIN st.rpc_map
             THEN [st |-> st1, ret |-> "Err",
                   rpkt |-> rpc_error(pkt.routing, pkt.id, "OutOfMemory", pkt.uid)]
             ELSE LET timeout == now + (IF client_id # 0 THEN clients[client_id].rpc_timeout
                                        ELSE InternalRpcTimeout)
                      remap == [id |-> pkt.id, uid |-> pkt.uid, client |-> client_id,
                                timeout |-> timeout, route |-> pkt.routing]
                      st2 == send_event(
                                 [st1 EXCEPT !.rpc_map = With(@, wire_id, remap)],
                                 RpcRemap(client_id, pkt.id, wire_id))
                      wpkt == [pkt EXCEPT !.id = wire_id]
                  IN  IF st.device_present /\ send_ok
                      THEN [st |-> [st2 EXCEPT
                                      !.port_tx = Append(@, wpkt),
                                      !.in_device = @ \cup {wpkt},
                                      !.rpc_timeouts = bucket_insert(@, timeout, wire_id)],
                            ret |-> "Ok", rpkt |-> pkt]
                      ELSE [st |-> [st2 EXCEPT !.rpc_map = Without(@, wire_id)],
                            ret |-> "Err",
                            rpkt |-> rpc_error(remap.route, remap.id, "Undefined", remap.uid)]
    ELSE LET stc == [st EXCEPT !.next_rpc_id = NextId(@)] IN
         IF st.device_present /\ send_ok
         THEN [st |-> [stc EXCEPT !.port_tx = Append(@, pkt)], ret |-> "Ok", rpkt |-> pkt]
         ELSE [st |-> stc, ret |-> "Ok", rpkt |-> pkt]

\* Proxy::forward_to_device: [st, ret, rpkt]; ret = "Err" when rpkt is to be
\* sent back to the client.  send_ok: whether tio_port.send returns Ok
forward_to_device(st, pkt, client_id, send_ok) ==
    IF pkt.payload = "RpcRequest"
    THEN LET wire_id == st.next_rpc_id
             st1 == [st EXCEPT !.next_rpc_id = NextId(wire_id)]
         IN  IF wire_id + 1 >= WireIds /\ build = "debug"
             THEN [st |-> Panic(st), ret |-> "Ok", rpkt |-> pkt]
             ELSE IF wire_id \in DOMAIN st.rpc_map
             THEN [st |-> st1, ret |-> "Err",
                   rpkt |-> rpc_error(pkt.routing, pkt.id, "OutOfMemory", pkt.uid)]
             ELSE LET timeout == now + (IF client_id # 0 THEN clients[client_id].rpc_timeout
                                        ELSE InternalRpcTimeout)
                      remap == [id |-> pkt.id, uid |-> pkt.uid, client |-> client_id,
                                timeout |-> timeout, route |-> pkt.routing]
                      st2 == send_event(
                                 [st1 EXCEPT !.rpc_map = With(@, wire_id, remap)],
                                 RpcRemap(client_id, pkt.id, wire_id))
                      wpkt == [pkt EXCEPT !.id = wire_id]
                  IN  IF st.device_present /\ send_ok
                      THEN [st |-> [st2 EXCEPT
                                      !.port_tx = Append(@, wpkt),
                                      !.in_device = @ \cup {wpkt},
                                      !.rpc_timeouts = bucket_insert(@, timeout, wire_id)],
                            ret |-> "Ok", rpkt |-> pkt]
                      ELSE [st |-> [st2 EXCEPT !.rpc_map = Without(@, wire_id)],
                            ret |-> "Err",
                            rpkt |-> rpc_error(remap.route, remap.id, "Undefined", remap.uid)]
    ELSE IF st.device_present /\ send_ok
         THEN [st |-> [st EXCEPT !.port_tx = Append(@, pkt)], ret |-> "Ok", rpkt |-> pkt]
         ELSE [st |-> st, ret |-> "Ok", rpkt |-> pkt]

\* ---------------------------------------------------------------- timeouts
\* ExpiredIds that takes the bucket of the deadline `until` as well
ExpiredIds_inclusive(st, until) ==
    UNION {st.rpc_timeouts[t] : t \in {x \in DOMAIN st.rpc_timeouts : x <= until}}

\* the wire ids of the buckets with a deadline before `until`
ExpiredIds(st, until) ==
    UNION {st.rpc_timeouts[t] : t \in {x \in DOMAIN st.rpc_timeouts : x < until}}

DeadlineOf(st, id) ==
    CHOOSE t \in DOMAIN st.rpc_timeouts : id \in st.rpc_timeouts[t]

\* the orders in which dispatch_rpc_timeouts may visit the expired ids: buckets
\* by increasing deadline (BTreeMap), the ids of a bucket in any order (HashSet)
DispatchOrders(st, until) ==
    LET ids == ExpiredIds(st, until)
        n == Cardinality(ids)
    IN  {o \in [1..n -> ids] :
            /\ \A i, j \in 1..n : i # j => o[i] # o[j]
            /\ \A i, j \in 1..n : i < j => DeadlineOf(st, o[i]) <= DeadlineOf(st, o[j])}

\* dispatch_one that treats the timeout of a request of the proxy itself as an
\* error answer to it
dispatch_one_giving_up(st, rpc_id, error) ==
    LET st1 == send_event(st, Ev("RpcTimeout", rpc_id, 0, 0)) IN
    IF rpc_id \notin DOMAIN st.rpc_map THEN Panic(st1)
    ELSE LET remap == st.rpc_map[rpc_id]
             st2 == [st1 EXCEPT !.rpc_map = Without(@, rpc_id)]
         IN  IF remap.client \notin DOMAIN clients
             THEN IF remap.client = 0
                  THEN [st2 EXCEPT !.device.rate_change_state = "GaveUp"]
                  ELSE st2
             ELSE send_unwrap(st2, remap.client,
                              rpc_error(remap.route, remap.id, error, remap.uid))

\* the body of the inner loop of dispatch_rpc_timeouts for one wire id
dispatch_one(st, rpc_id, error) ==
    LET st1 == send_event(st, Ev("RpcTimeout", rpc_id, 0, 0)) IN
    IF rpc_id \notin DOMAIN st.rpc_map THEN Panic(st1)
    ELSE LET remap == st.rpc_map[rpc_id]
             st2 == [st1 EXCEPT !.rpc_map = Without(@, rpc_id)]
         IN  IF remap.client \notin DOMAIN clients THEN st2
             ELSE send_unwrap(st2, remap.client,
                              rpc_error(remap.route, remap.id, error, remap.uid))

RECURSIVE dispatch_loop(_, _, _, _)
dispatch_loop(st, order, i, error) ==
    IF i > Len(order) \/ st.panic THEN st
    ELSE dispatch_loop(dispatch_one(st, order[i], error), order, i + 1, error)

\* Proxy::dispatch_rpc_timeouts, visiting the expired ids in the given order
dispatch_rpc_timeouts(st, until, error, order) ==
    LET st1 == dispatch_loop(st, order, 1, error) IN
    IF st1.panic THEN st1
    ELSE [st1 EXCEPT !.rpc_timeouts =
             [t \in {x \in DOMAIN @ : ~(x < until)} |-> @[t]]]

\* Proxy::process_rpc_timeouts (the returned wait is not modelled: the select
\* may time out whenever no source is ready)
process_rpc_timeouts(st, order) == dispatch_rpc_timeouts(st, now, "Timeout", order)

\* cancel_active_rpcs that reports the cancelled requests as timed out
cancel_active_rpcs_as_timeout(st, order) ==
    dispatch_rpc_timeouts(st, now + CancelHorizon, "Timeout", order)

\* cancel_active_rpcs that cancels nothing
cancel_active_rpcs_skipped(st, order) == st

\* Proxy::cancel_active_rpcs
cancel_active_rpcs(st, order) ==
    dispatch_rpc_timeouts(st, now + CancelHorizon, "Undefined", order)

\* ------------------------------------------------------------- the device
NoDevice == [rate_change_state |-> "DoNothing", last_rx |-> 0, last_session |-> 0]

\* try_setup_device that starts the negotiation on every port that has rates
try_setup_device_eager(st) ==
    IF st.device_present THEN st
    ELSE [st EXCEPT
            !.device_present = TRUE,
            !.device = [rate_change_state |->
                            IF rate_info.has THEN "WaitingForSession" ELSE "DoNothing",
                        last_rx |-> now, last_session |-> 0]]

\* Proxy::try_setup_device when AbstractPort::new returns Ok
try_setup_device(st) ==
    IF st.device_present THEN st
    ELSE [st EXCEPT
            !.device_present = TRUE,
            !.device = [rate_change_state |->
                            IF rate_info.has /\ rate_info.target_bps # rate_info.default_bps
                            THEN "WaitingForSession" ELSE "DoNothing",
                        last_rx |-> now, last_session |-> 0]]

\* ProxyDevice::has_static_rate
has_static_rate(dev) == dev.rate_change_state = "DoNothing"

\* ProxyDevice::needs_autonegotiation
needs_autonegotiation(dev) == dev.rate_change_state \notin {"DoNothing", "GaveUp"}

\* ProxyDevice::try_recv that restarts the negotiation on every root session
\* heartbeat met in GaveUp
ProxyDevice_try_recv_restart(dev, item) ==
    IF has_static_rate(dev) THEN dev
    ELSE IF item.res = "Ok"
    THEN LET pkt == item.pkt
             dev1 == IF pkt.payload = "HeartbeatSession" /\ Len(pkt.routing) = 0
                     THEN [dev EXCEPT
                             !.rate_change_state =
                                 IF @ \in {"WaitingForSession", "GaveUp"}
                                 THEN "QueryDeviceRate" ELSE @,
                             !.last_session = pkt.value]
                     ELSE dev
         IN  [dev1 EXCEPT !.last_rx = now]
    ELSE IF item.err = "ProtocolText" THEN [dev EXCEPT !.last_rx = now]
    ELSE dev

\* ProxyDevice::try_recv on a received item: the device record afterwards
ProxyDevice_try_recv(dev, item) ==
    IF has_static_rate(dev) THEN dev
    ELSE IF item.res = "Ok"
    THEN LET pkt == item.pkt
             dev1 == IF pkt.payload = "HeartbeatSession" /\ Len(pkt.routing) = 0
                     THEN [dev EXCEPT
                             !.rate_change_state =
                                 IF @ = "WaitingForSession" THEN "QueryDeviceRate"
                                 ELSE IF pkt.value # dev.last_session /\ @ = "GaveUp"
                                 THEN "QueryDeviceRate"
                                 ELSE @,
                             !.last_session = pkt.value]
                     ELSE dev
         IN  [dev1 EXCEPT !.last_rx = now]
    ELSE IF item.err = "ProtocolText" THEN [dev EXCEPT !.last_rx = now]
    ELSE dev

\* a tolerance test that also rejects an error of exactly 1.5 %
RateError_inclusive(target, value) ==
    (IF target >= value THEN target - value ELSE value - target) * 1000 >= 15 * value

\* |target - value| / value > 0.015 on f64, for u32 operands
RateError(target, value) ==
    (IF target >= value THEN target - value ELSE value - target) * 1000 > 15 * value

\* Proxy::internal_rpc_reply; set_rate_ok: whether tio_port.set_rate returns Ok
internal_rpc_reply(st, rep, set_rate_ok) ==
    IF rep.value < 0 THEN Panic(st)          \* rep.reply[0..4] out of range
    ELSE IF ~st.device_present THEN st
    ELSE IF ~rate_info.has THEN Panic(st)    \* rate_info().unwrap()
    ELSE LET value == rep.value
             target == rate_info.target_bps
             state == st.device.rate_change_state
         IN  IF state = "WaitingDeviceRate"
             THEN IF value = 0
                  THEN [send_event(send_event(st, Ev("AutoRateIncompatible", 0, 0, 0)),
                                   Ev("AutoRateGaveUp", 0, 0, 0))
                           EXCEPT !.device.rate_change_state = "GaveUp"]
                  ELSE IF RateError(target, value)
                  THEN [send_event(send_event(st, Ev("AutoRateIncompatible", value, 0, 0)),
                                   Ev("AutoRateGaveUp", 0, 0, 0))
                           EXCEPT !.device.rate_change_state = "GaveUp"]
                  ELSE [send_event(st, Ev("AutoRateCompatible", value, 0, 0))
                           EXCEPT !.device.rate_change_state = "SetDeviceRate"]
             ELSE IF state = "WaitingNewRate"
             THEN LET st1 == send_event(st, Ev("SetRate", target, 0, 0)) IN
                  IF set_rate_ok
                  THEN [st1 EXCEPT !.device.rate_change_state = "RateChanged"]
                  ELSE [send_event(st1, Ev("AutoRateGaveUp", 0, 0, 0))
                           EXCEPT !.device.rate_change_state = "GaveUp"]
             ELSE st

\* Proxy::internal_rpc_error
internal_rpc_error(st, err) ==
    LET st1 == send_event(st, Ev("AutoRateRpcError", 0, 0, 0)) IN
    IF st.device_present
    THEN [send_event(st1, Ev("AutoRateGaveUp", 0, 0, 0))
             EXCEPT !.device.rate_change_state = "GaveUp"]
    ELSE st1

\* Proxy::send_internal_rpc(..).unwrap()
send_internal_rpc_unwrap(st, pkt, send_ok) ==
    LET r == forward_to_device(st, pkt, 0, send_ok) IN
    IF r.ret = "Err" THEN Panic(r.st) ELSE r.st

\* Proxy::autonegotiation
autonegotiation(st, send_ok, set_rate_ok) ==
    LET state == st.device.rate_change_state IN
    IF state \in {"QueryDeviceRate", "SetDeviceRate", "RateChanged"} /\ ~rate_info.has
    THEN Panic(st)
    ELSE IF state = "QueryDeviceRate"
    THEN LET st1 == send_internal_rpc_unwrap(
                        st, make_rpc_request("dev.port.rate.near", rate_info.target_bps),
                        send_ok)
         IN  IF st1.panic THEN st1
             ELSE [send_event(st1, Ev("AutoRateQueried", rate_info.target_bps, 0, 0))
                      EXCEPT !.device.rate_change_state = "WaitingDeviceRate"]
    ELSE IF state = "SetDeviceRate"
    THEN IF DOMAIN st.rpc_map = {}
         THEN LET st1 == send_internal_rpc_unwrap(
                             st, make_rpc_request("dev.port.rate", rate_info.target_bps),
                             send_ok)
              IN  IF st1.panic THEN st1
                  ELSE [send_event(st1, Ev("AutoRateSet", rate_info.target_bps, 0, 0))
                           EXCEPT !.device.rate_change_state = "WaitingNewRate"]
         ELSE send_event(st, Ev("AutoRateWait", 0, 0, 0))
    ELSE IF state = "RateChanged"
    THEN IF now - st.device.last_rx > NoDataLimit
         THEN LET st1 == send_event(st, Ev("NoData", 0, 0, 0)) IN
              IF ~set_rate_ok THEN Panic(st1)
              ELSE [send_event(st1, Ev("SetRate", rate_info.default_bps, 0, 0))
                       EXCEPT !.device.rate_change_state = "GaveUp"]
         ELSE st
    ELSE st

\* ------------------------------------------------------- device -> clients
\* the orders in which `for (_, client) in self.clients.iter()` may visit the
\* clients (HashMap)
FanOutOrders ==
    LET ids == DOMAIN clients
        n == Cardinality(ids)
    IN  {o \in [1..n -> ids] : \A i, j \in 1..n : i # j => o[i] # o[j]}

RECURSIVE fan_out(_, _, _, _)
fan_out(st, pkt, order, i) ==
    IF i > Len(order) \/ st.panic THEN st
    ELSE fan_out(send_unwrap(st, order[i], pkt), pkt, order, i + 1)

\* the arm Ok(Ok(pkt)) of the device loop of Proxy::run
handle_device_packet(st, pkt, set_rate_ok, order) ==
    IF pkt.payload \in {"RpcReply", "RpcError"}
    THEN LET r == rpc_restore(st, pkt.id) IN
         IF r.st.panic \/ ~r.found THEN r.st
         ELSE IF r.client \in DOMAIN clients
         THEN send_unwrap(r.st, r.client, [pkt EXCEPT !.id = r.id])
         ELSE IF r.client = 0
         THEN IF pkt.payload = "RpcReply"
              THEN internal_rpc_reply(r.st, [pkt EXCEPT !.id = r.id], set_rate_ok)
              ELSE internal_rpc_error(r.st, [pkt EXCEPT !.id = r.id])
         ELSE r.st
    ELSE fan_out(st, pkt, order, 1)

\* ------------------------------------------------------------------ steps
Running == pc \notin {"exited", "panicked"}

\* the proxy has dropped its ends of client c's channels (record removed, or
\* the thread is gone)
ProxyDropped(c) == ~Running \/ (c < next_client_id /\ c \notin DOMAIN clients)

\* write the proxy state back; a panic ends the thread
Commit(st, newpc) ==
    /\ rpc_map' = st.rpc_map
    /\ rpc_timeouts' = st.rpc_timeouts
    /\ next_rpc_id' = st.next_rpc_id
    /\ client_tx' = st.client_tx
    /\ port_tx' = st.port_tx
    /\ in_device' = st.in_device
    /\ device_present' = st.device_present
    /\ device' = st.device
    /\ events' = st.events
    /\ pc' = IF st.panic THEN "panicked" ELSE newpc

FreshChan == [alive |-> TRUE, q |-> <<>>]

\* a step that sends no event and hands nothing to the port
Quiet == events' = <<>> /\ port_tx' = <<>>

\* the clock advances
Tick(d) ==
    /\ Running
    /\ now + d <= MaxTime
    /\ now' = now + d
    /\ Quiet
    /\ UNCHANGED <<build, rate_info, reconnect_timeout, pc, cur, device_present, device,
                   dev_rx, device_timeout, port_alive, new_client_queue, nports,
                   next_client_id, clients, clients_to_drop, client_rx, client_tx,
                   next_rpc_id, rpc_map, rpc_timeouts, in_device, nsent, port_result>>

\* the clock advances by more than the bound of the short runs allows: the
\* same step as Tick, up to MaxTimeLong
LongTick(d) ==
    /\ Running
    /\ now + d <= MaxTimeLong
    /\ now' = now + d
    /\ Quiet
    /\ UNCHANGED <<build, rate_info, reconnect_timeout, pc, cur, device_present, device,
                   dev_rx, device_timeout, port_alive, new_client_queue, nports,
                   next_client_id, clients, clients_to_drop, client_rx, client_tx,
                   next_rpc_id, rpc_map, rpc_timeouts, in_device, nsent, port_result>>

\* Proxy::run up to the main loop
Start(open_ok) ==
    /\ pc = "start"
    /\ LET st == IF open_ok THEN send_event(try_setup_device(St), Ev("SensorConnected", 0, 0, 0))
                 ELSE send_event(St, Ev("FailedToConnect", 0, 0, 0))
       IN  Commit(st, IF open_ok THEN "top" ELSE "exited")
    /\ device_timeout' = now
    /\ dev_rx' = FreshChan
    /\ UNCHANGED <<now, build, rate_info, reconnect_timeout, cur, port_alive,
                   new_client_queue, nports, next_client_id, clients, clients_to_drop,
                   client_rx, nsent, port_result>>

\* the head of an iteration of 'mainloop, up to the select: timeout sweep,
\* reconnection, autonegotiation upkeep, drop of the marked clients
IterTop(open_ok, send_ok, set_rate_ok) ==
    /\ pc = "top"
    /\ \E o1 \in DispatchOrders(St, now) :
         LET st1 == process_rpc_timeouts(St, o1)
             absent == ~st1.panic /\ ~st1.device_present
         IN  \E o2 \in (IF absent THEN DispatchOrders(st1, now + CancelHorizon) ELSE {<<>>}) :
               LET st2 == IF absent THEN cancel_active_rpcs(st1, o2) ELSE st1
                   retry == absent /\ ~st2.panic
                   exit == retry /\ ~open_ok /\ now > device_timeout
                   st3 == IF ~retry THEN st2
                          ELSE IF open_ok
                          THEN send_event(try_setup_device(st2), Ev("SensorReconnected", 0, 0, 0))
                          ELSE IF exit THEN send_event(st2, Ev("FailedToReconnect", 0, 0, 0))
                          ELSE st2
                   st4 == IF ~st3.panic /\ ~exit /\ st3.device_present
                             /\ needs_autonegotiation(st3.device)
                          THEN autonegotiation(st3, send_ok, set_rate_ok)
                          ELSE st3
                   stop == st4.panic \/ exit
               IN  /\ Commit(st4, IF exit THEN "exited" ELSE "select")
                   /\ clients' = IF stop THEN clients
                                 ELSE [c \in DOMAIN clients \ clients_to_drop |-> clients[c]]
                   /\ clients_to_drop' = IF stop THEN clients_to_drop ELSE {}
                   /\ dev_rx' = IF retry /\ open_ok THEN FreshChan ELSE dev_rx
    /\ UNCHANGED <<now, build, rate_info, reconnect_timeout, cur, device_timeout, port_alive,
                   new_client_queue, nports, next_client_id, client_rx, nsent, port_result>>

NewClientChan == [alive |-> port_alive, q |-> new_client_queue]

\* sel.ready_timeout(timeout) returns the index of a client's queue
SelectClient(c) ==
    /\ pc = "select"
    /\ c \in DOMAIN clients
    /\ Ready(client_rx[c])
    /\ pc' = "client"
    /\ cur' = c
    /\ Quiet
    /\ UNCHANGED <<now, build, rate_info, reconnect_timeout, device_present, device,
                   dev_rx, device_timeout, port_alive, new_client_queue, nports,
                   next_client_id, clients, clients_to_drop, client_rx, client_tx,
                   next_rpc_id, rpc_map, rpc_timeouts, in_device, nsent, port_result>>

\* ... the index of the new-client queue
SelectNewClient ==
    /\ pc = "select"
    /\ Ready(NewClientChan)
    /\ pc' = "new_client"
    /\ Quiet
    /\ UNCHANGED <<now, build, rate_info, reconnect_timeout, cur, device_present, device,
                   dev_rx, device_timeout, port_alive, new_client_queue, nports,
                   next_client_id, clients, clients_to_drop, client_rx, client_tx,
                   next_rpc_id, rpc_map, rpc_timeouts, in_device, nsent, port_result>>

\* ... the index of the device's receive queue
SelectDevice ==
    /\ pc = "select"
    /\ device_present
    /\ Ready(dev_rx)
    /\ pc' = "device"
    /\ Quiet
    /\ UNCHANGED <<now, build, rate_info, reconnect_timeout, cur, device_present, device,
                   dev_rx, device_timeout, port_alive, new_client_queue, nports,
                   next_client_id, clients, clients_to_drop, client_rx, client_tx,
                   next_rpc_id, rpc_map, rpc_timeouts, in_device, nsent, port_result>>

\* ... Err(ReadyTimeoutError): no source became ready within the wait
SelectTimeout ==
    /\ pc = "select"
    /\ \A c \in DOMAIN clients : ~Ready(client_rx[c])
    /\ ~Ready(NewClientChan)
    /\ ~(device_present /\ Ready(dev_rx))
    /\ pc' = "top"
    /\ Quiet
    /\ UNCHANGED <<now, build, rate_info, reconnect_timeout, cur, device_present, device,
                   dev_rx, device_timeout, port_alive, new_client_queue, nports,
                   next_client_id, clients, clients_to_drop, client_rx, client_tx,
                   next_rpc_id, rpc_map, rpc_timeouts, in_device, nsent, port_result>>

\* client loop, arm Ok(pkt): forward one packet of client cur to the device
ClientRecvOk(send_ok) ==
    /\ pc = "client"
    /\ try_recv(client_rx[cur]) = "Ok"
    /\ LET pkt == ProxyClient_recv(clients[cur], client_rx[cur])
           f == forward_to_device(St, pkt, cur, send_ok)
           st1 == IF f.st.panic \/ f.ret = "Ok" THEN f.st
                  ELSE send_unwrap(f.st, cur, f.rpkt)
       IN  Commit(st1, "client")
    /\ client_rx' = [client_rx EXCEPT ![cur].q = Tail(@)]
    /\ UNCHANGED <<now, build, rate_info, reconnect_timeout, cur, dev_rx, device_timeout,
                   port_alive, new_client_queue, nports, next_client_id, clients,
                   clients_to_drop, nsent, port_result>>

\* client loop, arm Err(Empty)
ClientRecvEmpty ==
    /\ pc = "client"
    /\ try_recv(client_rx[cur]) = "Empty"
    /\ pc' = "top"
    /\ cur' = 0
    /\ Quiet
    /\ UNCHANGED <<now, build, rate_info, reconnect_timeout, device_present, device,
                   dev_rx, device_timeout, port_alive, new_client_queue, nports,
                   next_client_id, clients, clients_to_drop, client_rx, client_tx,
                   next_rpc_id, rpc_map, rpc_timeouts, in_device, nsent, port_result>>

\* client loop, arm Err(Disconnected): mark the client for the drop
ClientRecvDisconnected ==
    /\ pc = "client"
    /\ try_recv(client_rx[cur]) = "Disconnected"
    /\ clients_to_drop' = clients_to_drop \cup {cur}
    /\ port_tx' = <<>>
    /\ events' = <<Ev("ClientTerminated", cur, 0, 0)>>
    /\ pc' = "top"
    /\ cur' = 0
    /\ UNCHANGED <<now, build, rate_info, reconnect_timeout, device_present, device,
                   dev_rx, device_timeout, port_alive, new_client_queue, nports,
                   next_client_id, clients, client_rx, client_tx,
                   next_rpc_id, rpc_map, rpc_timeouts, in_device, nsent, port_result>>

\* new-client loop, arm Ok(client)
NewClientOk ==
    /\ pc = "new_client"
    /\ try_recv(NewClientChan) = "Ok"
    /\ port_tx' = <<>>
    /\ events' = <<Ev("NewClient", next_client_id, 0, 0)>>
    /\ clients' = With(clients, next_client_id, Head(new_client_queue))
    /\ next_client_id' = next_client_id + 1
    /\ new_client_queue' = Tail(new_client_queue)
    /\ UNCHANGED <<now, build, rate_info, reconnect_timeout, pc, cur, device_present, device,
                   dev_rx, device_timeout, port_alive, nports, clients_to_drop,
                   client_rx, client_tx, next_rpc_id, rpc_map, rpc_timeouts, in_device,
                   nsent, port_result>>

\* new-client loop, arm Err(Empty)
NewClientEmpty ==
    /\ pc = "new_client"
    /\ try_recv(NewClientChan) = "Empty"
    /\ pc' = "top"
    /\ Quiet
    /\ UNCHANGED <<now, build, rate_info, reconnect_timeout, cur, device_present, device,
                   dev_rx, device_timeout, port_alive, new_client_queue, nports,
                   next_client_id, clients, clients_to_drop, client_rx, client_tx,
                   next_rpc_id, rpc_map, rpc_timeouts, in_device, nsent, port_result>>

\* new-client loop, arm Err(Disconnected): the loop ends
NewClientDisconnected ==
    /\ pc = "new_client"
    /\ try_recv(NewClientChan) = "Disconnected"
    /\ port_tx' = <<>>
    /\ events' = <<Ev("Exiting", 0, 0, 0)>>
    /\ pc' = "exited"
    /\ UNCHANGED <<now, build, rate_info, reconnect_timeout, cur, device_present, device,
                   dev_rx, device_timeout, port_alive, new_client_queue, nports,
                   next_client_id, clients, clients_to_drop, client_rx, client_tx,
                   next_rpc_id, rpc_map, rpc_timeouts, in_device, nsent, port_result>>

\* device loop, arm Ok(Ok(pkt))
DeviceRecvPacket(set_rate_ok) ==
    /\ pc = "device"
    /\ try_recv(dev_rx) = "Ok"
    /\ Head(dev_rx.q).res = "Ok"
    /\ \E order \in FanOutOrders :
         LET item == Head(dev_rx.q)
             st1 == [St EXCEPT !.device = ProxyDevice_try_recv(@, item)]
         IN  Commit(handle_device_packet(st1, item.pkt, set_rate_ok, order), "device")
    /\ dev_rx' = [dev_rx EXCEPT !.q = Tail(@)]
    /\ UNCHANGED <<now, build, rate_info, reconnect_timeout, cur, device_timeout, port_alive,
                   new_client_queue, nports, next_client_id, clients, clients_to_drop,
                   client_rx, nsent, port_result>>

\* device loop, arm Ok(Err(err)): a protocol error is reported, any other ends the loop
DeviceRecvError ==
    /\ pc = "device"
    /\ try_recv(dev_rx) = "Ok"
    /\ Head(dev_rx.q).res = "Err"
    /\ LET item == Head(dev_rx.q)
           fatal == item.err \notin {"ProtocolText", "ProtocolOther"}
           st1 == [St EXCEPT !.device = ProxyDevice_try_recv(@, item)]
       IN  Commit(send_event(st1, Ev(IF fatal THEN "FatalError" ELSE "ProtocolError", 0, 0, 0)),
                  IF fatal THEN "exited" ELSE "device")
    /\ dev_rx' = [dev_rx EXCEPT !.q = Tail(@)]
    /\ UNCHANGED <<now, build, rate_info, reconnect_timeout, cur, device_timeout, port_alive,
                   new_client_queue, nports, next_client_id, clients, clients_to_drop,
                   client_rx, nsent, port_result>>

\* device loop, arm Err(Empty)
DeviceRecvEmpty ==
    /\ pc = "device"
    /\ try_recv(dev_rx) = "Empty"
    /\ pc' = "top"
    /\ Quiet
    /\ UNCHANGED <<now, build, rate_info, reconnect_timeout, cur, device_present, device,
                   dev_rx, device_timeout, port_alive, new_client_queue, nports,
                   next_client_id, clients, clients_to_drop, client_rx, client_tx,
                   next_rpc_id, rpc_map, rpc_timeouts, in_device, nsent, port_result>>

\* device loop, arm Err(Disconnected): the transport is lost
DeviceRecvDisconnected ==
    /\ pc = "device"
    /\ try_recv(dev_rx) = "Disconnected"
    /\ device_present' = FALSE
    /\ device' = NoDevice
    /\ device_timeout' = now + (IF reconnect_timeout.has THEN reconnect_timeout.t ELSE 0)
    /\ port_tx' = <<>>
    /\ events' = <<Ev("SensorDisconnected", 0, 0, 0)>>
    /\ pc' = "top"
    /\ UNCHANGED <<now, build, rate_info, reconnect_timeout, cur, dev_rx, port_alive,
                   new_client_queue, nports, next_client_id, clients, clients_to_drop,
                   client_rx, client_tx, next_rpc_id, rpc_map, rpc_timeouts, in_device,
                   nsent, port_result>>

\* ------------------------------------------------------------ environment
\* a validation of rpc_timeout that rejects the two limits themselves
ValidRpcTimeout_strict(t) == t > MinRpcTimeout /\ t < MaxRpcTimeout

\* the two tests of rpc_timeout in Port::port
ValidRpcTimeout(t) == ~(t < MinRpcTimeout) /\ ~(t > MaxRpcTimeout)

\* Port::port, called by a user thread; new_client_queue.send blocks while the
\* queue is full and fails once the proxy thread has dropped the receiver
PortPort(rpc_timeout, scope, forward_data, forward_nonrpc) ==
    /\ port_alive
    /\ nports < MaxClients
    /\ LET t == IF rpc_timeout.has THEN rpc_timeout.t ELSE DefaultRpcTimeout IN
       IF ~ValidRpcTimeout(t)
       THEN /\ port_result' = [res |-> "InvalidInput", rpc_timeout |-> rpc_timeout]
            /\ UNCHANGED <<new_client_queue, nports>>
       ELSE IF ~Running
       THEN /\ port_result' = [res |-> "BrokenPipe", rpc_timeout |-> rpc_timeout]
            /\ UNCHANGED <<new_client_queue, nports>>
       ELSE /\ Len(new_client_queue) < NewClientCap
            /\ port_result' = [res |-> "Ok", rpc_timeout |-> rpc_timeout]
            /\ new_client_queue' =
                   Append(new_client_queue,
                          [scope |-> scope, forward_data |-> forward_data,
                           forward_nonrpc |-> forward_nonrpc, rpc_timeout |-> t])
            /\ nports' = nports + 1
    /\ Quiet
    /\ UNCHANGED <<now, build, rate_info, reconnect_timeout, pc, cur, device_present, device,
                   dev_rx, device_timeout, port_alive, next_client_id, clients,
                   clients_to_drop, client_rx, client_tx, next_rpc_id, rpc_map,
                   rpc_timeouts, in_device, nsent>>

\* the user drops the Port handle: the new-client queue is closed
PortDrop ==
    /\ Running
    /\ port_alive
    /\ port_alive' = FALSE
    /\ Quiet
    /\ UNCHANGED <<now, build, rate_info, reconnect_timeout, pc, cur, device_present, device,
                   dev_rx, device_timeout, new_client_queue, nports, next_client_id,
                   clients, clients_to_drop, client_rx, client_tx, next_rpc_id, rpc_map,
                   rpc_timeouts, in_device, nsent, port_result>>

\* client c puts a packet on its inbound queue
ClientPut(c, pkt) ==
    /\ c \in 1..nports
    /\ client_rx[c].alive
    /\ ~ProxyDropped(c)
    /\ Len(client_rx[c].q) < InCap
    /\ nsent' = nsent + 1
    /\ client_rx' = [client_rx EXCEPT ![c].q = Append(@, [pkt EXCEPT !.uid = nsent + 1])]
    /\ Quiet
    /\ UNCHANGED <<now, build, rate_info, reconnect_timeout, pc, cur, device_present, device,
                   dev_rx, device_timeout, port_alive, new_client_queue, nports,
                   next_client_id, clients, clients_to_drop, client_tx, next_rpc_id,
                   rpc_map, rpc_timeouts, in_device, port_result>>

\* a client puts a stream packet on its inbound queue (it carries no request,
\* so it is not counted in nsent)
ClientStream(c) ==
    /\ c \in 1..nports
    /\ client_rx[c].alive
    /\ ~ProxyDropped(c)
    /\ Len(client_rx[c].q) < InCap
    /\ client_rx' = [client_rx EXCEPT ![c].q = Append(@, Pkt("StreamData", 0, <<>>, "-", 0, 0))]
    /\ Quiet
    /\ UNCHANGED <<now, build, rate_info, reconnect_timeout, pc, cur, device_present, device,
                   dev_rx, device_timeout, port_alive, new_client_queue, nports,
                   next_client_id, clients, clients_to_drop, client_tx, next_rpc_id,
                   rpc_map, rpc_timeouts, in_device, nsent, port_result>>

\* client c takes a packet from its outbound queue
ClientTake(c) ==
    /\ Running
    /\ c \in 1..nports
    /\ client_tx[c].alive
    /\ client_tx[c].q # <<>>
    /\ client_tx' = [client_tx EXCEPT ![c].q = Tail(@)]
    /\ Quiet
    /\ UNCHANGED <<now, build, rate_info, reconnect_timeout, pc, cur, device_present, device,
                   dev_rx, device_timeout, port_alive, new_client_queue, nports,
                   next_client_id, clients, clients_to_drop, client_rx, next_rpc_id,
                   rpc_map, rpc_timeouts, in_device, nsent, port_result>>

\* client c drops the sender of its inbound queue
ClientDropSender(c) ==
    /\ Running
    /\ c \in 1..nports
    /\ client_rx[c].alive
    /\ client_rx' = [client_rx EXCEPT ![c].alive = FALSE]
    /\ Quiet
    /\ UNCHANGED <<now, build, rate_info, reconnect_timeout, pc, cur, device_present, device,
                   dev_rx, device_timeout, port_alive, new_client_queue, nports,
                   next_client_id, clients, clients_to_drop, client_tx, next_rpc_id,
                   rpc_map, rpc_timeouts, in_device, nsent, port_result>>

\* client c drops the receiver of its outbound queue (what is queued is lost)
ClientDropReceiver(c) ==
    /\ Running
    /\ c \in 1..nports
    /\ client_tx[c].alive
    /\ client_tx' = [client_tx EXCEPT ![c] = [alive |-> FALSE, q |-> <<>>]]
    /\ Quiet
    /\ UNCHANGED <<now, build, rate_info, reconnect_timeout, pc, cur, device_present, device,
                   dev_rx, device_timeout, port_alive, new_client_queue, nports,
                   next_client_id, clients, clients_to_drop, client_rx, next_rpc_id,
                   rpc_map, rpc_timeouts, in_device, nsent, port_result>>

NoPkt == Pkt("None", 0, <<>>, "-", 0, 0)
OkItem(pkt) == [pkt |-> pkt, res |-> "Ok", err |-> "-"]
ErrItem(err) == [pkt |-> NoPkt, res |-> "Err", err |-> err]

\* the transport task posts a received packet or a receive error
DevEmit(item) ==
    /\ Running
    /\ device_present
    /\ dev_rx.alive
    /\ Len(dev_rx.q) < DevCap
    /\ dev_rx' = [dev_rx EXCEPT !.q = Append(@, item)]
    /\ Quiet
    /\ UNCHANGED <<now, build, rate_info, reconnect_timeout, pc, cur, device_present, device,
                   device_timeout, port_alive, new_client_queue, nports, next_client_id,
                   clients, clients_to_drop, client_rx, client_tx, next_rpc_id, rpc_map,
                   rpc_timeouts, in_device, nsent, port_result>>

\* the device answers a request it was sent, with a reply or an error on the
\* request's route, and the transport task posts the answer
DevReply(req, payload, value) ==
    /\ Running
    /\ device_present
    /\ dev_rx.alive
    /\ Len(dev_rx.q) < DevCap
    /\ req \in in_device
    /\ in_device' = in_device \ {req}
    /\ dev_rx' = [dev_rx EXCEPT !.q =
           Append(@, OkItem(Pkt(payload, req.id, req.routing,
                                IF payload = "RpcError" THEN "NotFound" ELSE "-",
                                value, req.uid)))]
    /\ Quiet
    /\ UNCHANGED <<now, build, rate_info, reconnect_timeout, pc, cur, device_present, device,
                   device_timeout, port_alive, new_client_queue, nports, next_client_id,
                   clients, clients_to_drop, client_rx, client_tx, next_rpc_id, rpc_map,
                   rpc_timeouts, nsent, port_result>>

\* the transport is lost: the senders of the device's receive queue are dropped
DevClose ==
    /\ Running
    /\ device_present
    /\ dev_rx.alive
    /\ dev_rx' = [dev_rx EXCEPT !.alive = FALSE]
    /\ Quiet
    /\ UNCHANGED <<now, build, rate_info, reconnect_timeout, pc, cur, device_present, device,
                   device_timeout, port_alive, new_client_queue, nports, next_client_id,
                   clients, clients_to_drop, client_rx, client_tx, next_rpc_id, rpc_map,
                   rpc_timeouts, in_device, nsent, port_result>>

\* ------------------------------------------------------------ specification
NoRateInfo == [has |-> FALSE, target_bps |-> 0, default_bps |-> 0]
Some(t) == [t |-> t, has |-> TRUE]
None == [t |-> 0, has |-> FALSE]

\* the state after Proxy::new, for the given builds, ports and configurations
InitWith(builds, rate_infos, reconnect_timeouts) ==
    /\ now = 0
    /\ build \in builds
    /\ rate_info \in rate_infos
    /\ reconnect_timeout \in reconnect_timeouts
    /\ pc = "start"
    /\ cur = 0
    /\ device_present = FALSE
    /\ device = NoDevice
    /\ dev_rx = FreshChan
    /\ device_timeout = 0
    /\ port_alive = TRUE
    /\ new_client_queue = <<>>
    /\ nports = 0
    /\ next_client_id = 1
    /\ clients = <<>>
    /\ clients_to_drop = {}
    /\ client_rx = [c \in 1..MaxClients |-> FreshChan]
    /\ client_tx = [c \in 1..MaxClients |-> FreshChan]
    /\ next_rpc_id = 0
    /\ rpc_map = <<>>
    /\ rpc_timeouts = <<>>
    /\ port_tx = <<>>
    /\ in_device = {}
    /\ events = <<>>
    /\ nsent = 0
    /\ port_result = [res |-> "none", rpc_timeout |-> None]

\* Spec: the RPC remapping of two clients that keep their channels open, on a
\* port without rate autonegotiation
OrigIds == {7}
Init == InitWith({"release"}, {NoRateInfo}, {None})

Next ==
    \/ \E open_ok \in BOOLEAN : Start(open_ok)
    \/ \E open_ok, send_ok \in BOOLEAN : IterTop(open_ok, send_ok, TRUE)
    \/ \E c \in 1..MaxClients : SelectClient(c)
    \/ SelectNewClient
    \/ SelectDevice
    \/ SelectTimeout
    \/ \E send_ok \in BOOLEAN : ClientRecvOk(send_ok)
    \/ ClientRecvEmpty
    \/ NewClientOk
    \/ NewClientEmpty
    \/ DeviceRecvPacket(TRUE)
    \/ DeviceRecvEmpty
    \/ DeviceRecvDisconnected
    \/ Tick(1)
    \/ \E k \in 1..MaxClients :
           k = nports + 1 /\ PortPort(Some(k), IF k = 1 THEN <<>> ELSE <<1>>, TRUE, TRUE)
    \/ \E c \in 1..MaxClients, id \in OrigIds :
           nsent < MaxSent /\ ClientPut(c, Pkt("RpcRequest", id, <<>>, "-", 0, 0))
    \/ \E c \in 1..MaxClients : ClientTake(c)
    \/ \E req \in in_device, payload \in {"RpcReply", "RpcError"} : DevReply(req, payload, 0)
    \/ DevClose

Spec == Init /\ [][Next]_vars

\* SpecWrap: the clients send more requests than there are wire ids, so that
\* the counter wraps, an id in use is met again and an outbound queue can fill
\* up; the transport stays up
MaxSentWrap == 3     \* requests the clients send in one run of SpecWrap

NextWrap ==
    \/ \E open_ok \in BOOLEAN : Start(open_ok)
    \/ IterTop(TRUE, TRUE, TRUE)
    \/ \E c \in 1..MaxClients : SelectClient(c)
    \/ SelectNewClient
    \/ SelectDevice
    \/ SelectTimeout
    \/ \E send_ok \in BOOLEAN : ClientRecvOk(send_ok)
    \/ ClientRecvEmpty
    \/ NewClientOk
    \/ NewClientEmpty
    \/ DeviceRecvPacket(TRUE)
    \/ DeviceRecvEmpty
    \/ Tick(1)
    \/ \E k \in 1..MaxClients :
           k = nports + 1 /\ PortPort(Some(k), IF k = 1 THEN <<>> ELSE <<1>>, TRUE, TRUE)
    \/ \E c \in 1..MaxClients, id \in OrigIds :
           nsent < MaxSentWrap /\ ClientPut(c, Pkt("RpcRequest", id, <<>>, "-", 0, 0))
    \/ \E c \in 1..MaxClients : ClientTake(c)
    \/ \E req \in in_device, payload \in {"RpcReply", "RpcError"} : DevReply(req, payload, 0)

SpecWrap == Init /\ [][NextWrap]_vars

\* SpecClose: the first client may close either end of its channels at any
\* time, the transport may be lost and reopened
NextClose ==
    \/ \E open_ok \in BOOLEAN : Start(open_ok)
    \/ \E open_ok \in BOOLEAN : IterTop(open_ok, TRUE, TRUE)
    \/ \E c \in 1..MaxClients : SelectClient(c)
    \/ SelectNewClient
    \/ SelectDevice
    \/ SelectTimeout
    \/ ClientRecvOk(TRUE)
    \/ ClientRecvEmpty
    \/ ClientRecvDisconnected
    \/ NewClientOk
    \/ NewClientEmpty
    \/ DeviceRecvPacket(TRUE)
    \/ DeviceRecvEmpty
    \/ DeviceRecvDisconnected
    \/ Tick(1)
    \/ \E k \in 1..MaxClients :
           k = nports + 1 /\ PortPort(Some(k), IF k = 1 THEN <<>> ELSE <<1>>, TRUE, TRUE)
    \/ \E c \in 1..MaxClients, id \in OrigIds :
           nsent < MaxSent /\ ClientPut(c, Pkt("RpcRequest", id, <<>>, "-", 0, 0))
    \/ \E c \in 1..MaxClients : ClientTake(c)
    \/ ClientDropSender(1)
    \/ ClientDropReceiver(1)
    \/ \E req \in in_device : DevReply(req, "RpcReply", 0)
    \/ DevClose

SpecClose == Init /\ [][NextClose]_vars

\* SpecFan: the device sends packets that answer no request, on routes inside
\* and outside the clients' scopes, to clients of every scope and policy that
\* send nothing and may leave their outbound queues unread
DevicePayloads == {"StreamData", "HeartbeatSession", "RpcRequest"}
DeviceRoutes == {<<>>, <<1, 2>>}
Scopes == {<<>>, <<1>>}

NextFan ==
    \/ \E open_ok \in BOOLEAN : Start(open_ok)
    \/ IterTop(TRUE, TRUE, TRUE)
    \/ SelectNewClient
    \/ SelectDevice
    \/ SelectTimeout
    \/ NewClientOk
    \/ NewClientEmpty
    \/ DeviceRecvPacket(TRUE)
    \/ DeviceRecvEmpty
    \/ \E scope \in Scopes, forward_data, forward_nonrpc \in BOOLEAN :
           PortPort(None, scope, forward_data, forward_nonrpc)
    \/ \E c \in 1..MaxClients : ClientTake(c)
    \/ \E payload \in DevicePayloads, routing \in DeviceRoutes :
           DevEmit(OkItem(Pkt(payload, 0, routing, "-", 0, 0)))

SpecFan == Init /\ [][NextFan]_vars

\* SpecForward: one client below the root scope sends requests and stream
\* packets, the port may refuse a packet, the transport may be lost, and the
\* client may close the receiving end of its outbound queue
ClientPayloads == {"RpcRequest", "StreamData"}

NextForward ==
    \/ \E open_ok \in BOOLEAN : Start(open_ok)
    \/ \E open_ok \in BOOLEAN : IterTop(open_ok, TRUE, TRUE)
    \/ SelectClient(1)
    \/ SelectNewClient
    \/ SelectDevice
    \/ SelectTimeout
    \/ \E send_ok \in BOOLEAN : ClientRecvOk(send_ok)
    \/ ClientRecvEmpty
    \/ NewClientOk
    \/ NewClientEmpty
    \/ DeviceRecvPacket(TRUE)
    \/ DeviceRecvEmpty
    \/ DeviceRecvDisconnected
    \/ Tick(1)
    \/ nports = 0 /\ PortPort(Some(1), <<1>>, TRUE, TRUE)
    \/ \E payload \in ClientPayloads, id \in OrigIds :
           nsent < MaxSentWrap /\ ClientPut(1, Pkt(payload, id, <<2>>, "-", 0, 0))
    \/ ClientTake(1)
    \/ ClientDropReceiver(1)
    \/ \E req \in in_device : DevReply(req, "RpcReply", 0)
    \/ DevClose

SpecForward == Init /\ [][NextForward]_vars

\* SpecBuild: the traffic of SpecForward on a proxy built with or without
\* overflow checks
Builds == {"release", "debug"}

SpecBuild == InitWith(Builds, {NoRateInfo}, {None}) /\ [][NextForward]_vars

\* SpecPort: user threads register clients with every kind of rpc_timeout, on
\* a proxy that runs or has failed to connect, and with no other traffic
RpcTimeouts == {None, Some(0), Some(1), Some(600), Some(601)}

NextPort ==
    \/ \E open_ok \in BOOLEAN : Start(open_ok)
    \/ IterTop(TRUE, TRUE, TRUE)
    \/ SelectNewClient
    \/ SelectTimeout
    \/ NewClientOk
    \/ NewClientEmpty
    \/ Tick(1)
    \/ \E rpc_timeout \in RpcTimeouts, scope \in Scopes, forward_data \in BOOLEAN :
           PortPort(rpc_timeout, scope, forward_data, TRUE)

SpecPort == Init /\ [][NextPort]_vars

\* SpecLife: the ways the loop ends and the device comes back. Ports with and
\* without a rate to negotiate, a reconnect window of one time unit; one client
\* that sends one request and may close either end; the transport posts stream
\* data and receive errors and may be lost; the Port handle may be dropped
RateInfos ==
    {NoRateInfo,
     [has |-> TRUE, target_bps |-> 200, default_bps |-> 200],
     [has |-> TRUE, target_bps |-> 203, default_bps |-> 200]}

ReconnectTimeouts == {Some(1)}

RecvErrors == {"ProtocolText", "Io"}

MaxSentLife == 1

InitLife == InitWith({"release"}, RateInfos, ReconnectTimeouts)

NextLife ==
    \/ \E open_ok \in BOOLEAN : Start(open_ok)
    \/ \E open_ok \in BOOLEAN : IterTop(open_ok, TRUE, TRUE)
    \/ SelectClient(1)
    \/ SelectNewClient
    \/ SelectDevice
    \/ SelectTimeout
    \/ ClientRecvOk(TRUE)
    \/ ClientRecvEmpty
    \/ ClientRecvDisconnected
    \/ NewClientOk
    \/ NewClientEmpty
    \/ NewClientDisconnected
    \/ DeviceRecvPacket(TRUE)
    \/ DeviceRecvError
    \/ DeviceRecvEmpty
    \/ DeviceRecvDisconnected
    \/ Tick(1)
    \/ nports = 0 /\ PortPort(Some(1), <<>>, TRUE, TRUE)
    \/ PortDrop
    \/ \E id \in OrigIds :
           nsent < MaxSentLife /\ ClientPut(1, Pkt("RpcRequest", id, <<>>, "-", 0, 0))
    \/ ClientTake(1)
    \/ ClientDropSender(1)
    \/ ClientDropReceiver(1)
    \/ DevEmit(OkItem(Pkt("StreamData", 0, <<>>, "-", 0, 0)))
    \/ \E err \in RecvErrors : DevEmit(ErrItem(err))
    \/ \E req \in in_device : DevReply(req, "RpcReply", 0)
    \/ DevClose

SpecLife == InitLife /\ [][NextLife]_vars

\* SpecRate: the rate negotiation. No clients; the device sends session
\* heartbeats on the root route and below it and answers the proxy's own
\* requests with rates inside and outside the tolerance, with short replies and
\* with errors; the port may refuse a request or a change of rate
Sessions == {1, 2}

RateValues == {-1, 0, 199, 200, 203, 207}

NextRate ==
    \/ \E open_ok \in BOOLEAN : Start(open_ok)
    \/ \E send_ok, set_rate_ok \in BOOLEAN : IterTop(TRUE, send_ok, set_rate_ok)
    \/ SelectDevice
    \/ SelectTimeout
    \/ \E set_rate_ok \in BOOLEAN : DeviceRecvPacket(set_rate_ok)
    \/ DeviceRecvError
    \/ DeviceRecvEmpty
    \/ Tick(1)
    \/ \E s \in Sessions, route \in {<<>>, <<1>>} :
           DevEmit(OkItem(Pkt("HeartbeatSession", 0, route, "-", s, 0)))
    \/ DevEmit(ErrItem("ProtocolOther"))
    \/ \E req \in in_device, v \in RateValues : DevReply(req, "RpcReply", v)
    \/ \E req \in in_device : DevReply(req, "RpcError", 0)

SpecRate == InitWith({"release"}, RateInfos, {None}) /\ [][NextRate]_vars

\* SpecUpkeep: the rate negotiation over more than a second, with a client.
\* The port's target rate differs from its default; the device sends root
\* session heartbeats and text protocol errors and answers requests; one
\* client sends one request; the clock advances by a tenth of a second early
\* on and by a second later; the port may refuse a request or a change of rate
RateInfoUpkeep == [has |-> TRUE, target_bps |-> 203, default_bps |-> 200]

NextUpkeep ==
    \/ Start(TRUE)
    \/ \E send_ok, set_rate_ok \in BOOLEAN : IterTop(TRUE, send_ok, set_rate_ok)
    \/ SelectClient(1)
    \/ SelectNewClient
    \/ SelectDevice
    \/ SelectTimeout
    \/ ClientRecvOk(TRUE)
    \/ ClientRecvEmpty
    \/ NewClientOk
    \/ NewClientEmpty
    \/ \E set_rate_ok \in BOOLEAN : DeviceRecvPacket(set_rate_ok)
    \/ DeviceRecvError
    \/ DeviceRecvEmpty
    \/ Tick(1)
    \/ LongTick(10)
    \/ nports = 0 /\ PortPort(Some(1), <<>>, TRUE, TRUE)
    \/ \E id \in OrigIds :
           nsent < MaxSentLife /\ ClientPut(1, Pkt("RpcRequest", id, <<>>, "-", 0, 0))
    \/ ClientTake(1)
    \/ DevEmit(OkItem(Pkt("HeartbeatSession", 0, <<>>, "-", 1, 0)))
    \/ DevEmit(ErrItem("ProtocolText"))
    \/ \E req \in in_device : DevReply(req, "RpcReply", 200)

SpecUpkeep == InitWith({"release"}, {RateInfoUpkeep}, {None}) /\ [][NextUpkeep]_vars

\* the proxy with every source busy: two clients that put stream packets
\* whenever their queues have room, one request with a deadline of 100 ms, a
\* device that streams, but not faster than the proxy takes its packets.  The proxy thread keeps running (weak fairness of its
\* steps) and the select, which picks among the ready sources at random,
\* picks each source that is ready again and again (strong fairness).
ProxyStep ==
    \/ Start(TRUE)
    \/ IterTop(TRUE, TRUE, TRUE)
    \/ SelectTimeout
    \/ ClientRecvOk(TRUE)
    \/ ClientRecvEmpty
    \/ NewClientOk
    \/ NewClientEmpty
    \/ DeviceRecvPacket(TRUE)
    \/ DeviceRecvEmpty

NextFair ==
    \/ ProxyStep
    \/ \E c \in 1..MaxClients : SelectClient(c)
    \/ SelectNewClient
    \/ SelectDevice
    \/ Tick(1)
    \/ PortPort(Some(1), <<>>, FALSE, TRUE)
    \/ \E c \in 1..MaxClients : ClientStream(c)
    \/ nsent < MaxSentLife /\ ClientPut(1, Pkt("RpcRequest", 7, <<>>, "-", 0, 0))
    \/ \E c \in 1..MaxClients : ClientTake(c)
    \/ pc # "device" /\ DevEmit(OkItem(Pkt("StreamData", 0, <<>>, "-", 0, 0)))

SpecFair ==
    /\ Init
    /\ [][NextFair]_vars
    /\ WF_vars(ProxyStep)
    /\ \A c \in 1..MaxClients : SF_vars(SelectClient(c))
    /\ SF_vars(SelectNewClient)
    /\ SF_vars(SelectDevice)

\* ------------------------------------------------------------ properties
EventNames == {events[i].name : i \in 1..Len(events)}

RECURSIVE SumSizes(_, _)
SumSizes(f, S) ==
    IF S = {} THEN 0
    ELSE LET t == CHOOSE x \in S : TRUE IN Cardinality(f[t]) + SumSizes(f, S \ {t})

\* C1: wherever the main loop stands between two steps, and so whenever it
\* waits in its select, a wire id is a key of rpc_map exactly when it is a
\* member of the bucket of rpc_timeouts stored under its entry's own deadline.
C1_MapMatchesIndex ==
    Running =>
        /\ \A w \in DOMAIN rpc_map :
               /\ rpc_map[w].timeout \in DOMAIN rpc_timeouts
               /\ w \in rpc_timeouts[rpc_map[w].timeout]
        /\ \A t \in DOMAIN rpc_timeouts : \A w \in rpc_timeouts[t] :
               /\ w \in DOMAIN rpc_map
               /\ rpc_map[w].timeout = t

\* C1 witness: the loop reaches its select after a sweep that timed one request
\* out while another one stays in the table
C1_Witness ==
    /\ pc = "select"
    /\ "RpcTimeout" \in EventNames
    /\ DOMAIN rpc_map # {}

\* C2: the deadline index holds no empty bucket, no wire id is in two buckets,
\* and rpc_map has as many entries as the buckets have members together.
C2_IndexShape ==
    Running =>
        /\ \A t \in DOMAIN rpc_timeouts : rpc_timeouts[t] # {}
        /\ \A t1, t2 \in DOMAIN rpc_timeouts :
               t1 # t2 => rpc_timeouts[t1] \cap rpc_timeouts[t2] = {}
        /\ Cardinality(DOMAIN rpc_map) = SumSizes(rpc_timeouts, DOMAIN rpc_timeouts)

\* C2 witness: a reply has just taken a wire id out of its bucket while another
\* request is still in the table
C2_Witness ==
    /\ Running
    /\ "RpcRestore" \in EventNames
    /\ DOMAIN rpc_map # {}


\* ---------------------------------------------- steps seen from outside
\* the step takes the head of the device's receive queue
DeviceTakes == dev_rx.q # <<>> /\ dev_rx'.q = Tail(dev_rx.q)

\* the step is the arm Ok(Ok(pkt)) of the device loop, for a reply or an error
DeviceAnswers ==
    /\ DeviceTakes
    /\ Head(dev_rx.q).res = "Ok"
    /\ Head(dev_rx.q).pkt.payload \in {"RpcReply", "RpcError"}

\* the positions of client c's outbound queue that the step has filled
AppendedIdx(c) == (Len(client_tx[c].q) + 1)..Len(client_tx'[c].q)

\* the RpcReply and RpcError packets that the step has put on c's outbound queue
Answers(c) ==
    {i \in AppendedIdx(c) : client_tx'[c].q[i].payload \in {"RpcReply", "RpcError"}}

\* the remap entries that the step has taken out of the table
Settled == {w \in DOMAIN rpc_map : w \notin DOMAIN rpc_map' \/ rpc_map'[w] # rpc_map[w]}

\* the remap entries that the step has put in the table
Inserted == {w \in DOMAIN rpc_map' : w \notin DOMAIN rpc_map \/ rpc_map'[w] # rpc_map[w]}

\* C3: a device reply or error whose wire id w is in the table for a registered
\* client c with original id r leaves the table and the index without w, and
\* is put, with id r and the route relative to c's scope, on the outbound
\* queue of c and of no other client.
C3_ReplyRestored ==
    [][\A w \in DOMAIN rpc_map :
          (/\ DeviceAnswers
           /\ Head(dev_rx.q).pkt.id = w
           /\ rpc_map[w].client \in DOMAIN clients)
          => LET pkt == Head(dev_rx.q).pkt
                 c == rpc_map[w].client
             IN  /\ w \notin DOMAIN rpc_map'
                 /\ \A t \in DOMAIN rpc_timeouts' : w \notin rpc_timeouts'[t]
                 /\ client_tx'[c].q =
                        Append(client_tx[c].q,
                               [pkt EXCEPT !.id = rpc_map[w].id,
                                           !.routing = SubSeq(pkt.routing,
                                                              Len(clients[c].scope) + 1,
                                                              Len(pkt.routing))])
                 /\ \A d \in DOMAIN client_tx : d # c => client_tx'[d] = client_tx[d]
      ]_vars

\* a device reply or error whose wire id is not in the table is discarded
UnknownDiscarded ==
    (DeviceAnswers /\ Head(dev_rx.q).pkt.id \notin DOMAIN rpc_map)
        => client_tx' = client_tx /\ rpc_map' = rpc_map

\* every answer put on a client's queue ends the request of that client that
\* the answer was produced for: the step takes the request's entry out of the
\* table, or it takes the request itself from the client's inbound queue and
\* leaves no entry for it
AnswerEndsRequest ==
    \A c \in 1..MaxClients : \A i \in Answers(c) :
        LET u == client_tx'[c].q[i].uid IN
        \/ \E w \in Settled : rpc_map[w].client = c /\ rpc_map[w].uid = u
        \/ /\ pc = "client" /\ cur = c
           /\ client_rx[c].q # <<>> /\ Head(client_rx[c].q).uid = u
           /\ client_rx'[c].q = Tail(client_rx[c].q)
           /\ \A w \in DOMAIN rpc_map' : rpc_map'[w].uid # u

\* C4: replies are delivered at most once and only to the originator: an
\* unknown wire id is discarded, and whatever answer reaches a client ends
\* the very request of that client that the answer was produced for, also
\* after the wire id counter has wrapped.
C4_OnlyToOriginator == [][UnknownDiscarded /\ AnswerEndsRequest]_vars

\* C4 witness: a late reply has just been restored through the entry of a
\* newer request, so that a client holds two answers to one request
C4_Witness ==
    /\ pc = "device"
    /\ "RpcRestore" \in EventNames
    /\ \E c \in 1..MaxClients :
           /\ Len(client_tx[c].q) = 2
           /\ client_tx[c].q[1].uid = client_tx[c].q[2].uid
           /\ client_tx[c].q[2].payload = "RpcReply"

\* the RpcRemap events of the step for client c and original id r
RemapsOf(c, r) ==
    {i \in 1..Len(events') :
        events'[i].name = "RpcRemap" /\ events'[i].a = c /\ events'[i].b = r}

\* the entries of client c with original id r that the step has taken out of
\* the table: the requests of c with id r that the step has answered
SettledOf(c, r) == {w \in Settled : rpc_map[w].client = c /\ rpc_map[w].id = r}

\* the entries of the table are the RpcRemap events not yet answered: a step
\* puts an entry in the table exactly when it emits the entry's RpcRemap, and
\* an RpcRemap without an entry is one whose request the same step answers
RemapIsEntry ==
    /\ \A w \in Inserted :
           /\ w \notin DOMAIN rpc_map
           /\ \E i \in 1..Len(events') :
                  events'[i] = Ev("RpcRemap", rpc_map'[w].client, rpc_map'[w].id, w)
    /\ Cardinality({i \in 1..Len(events') : events'[i].name = "RpcRemap"}) <= 1
    /\ \A i \in 1..Len(events') : events'[i].name = "RpcRemap" =>
           \/ events'[i].c \in Inserted
           \/ events'[i].c \notin DOMAIN rpc_map \cup DOMAIN rpc_map'

\* C5 as stated: every RpcReply or RpcError that a step puts on a client's
\* outbound queue, the synthetic OutOfMemory included, answers an RpcRemap of
\* that client and original id that was not answered before: an entry that
\* the step takes out of the table, or an RpcRemap emitted by the step itself.
C5_EveryAnswerHasRemap ==
    [][/\ RemapIsEntry
       /\ \A c \in 1..MaxClients : \A r \in OrigIds :
              Cardinality({i \in Answers(c) : client_tx'[c].q[i].id = r})
                  <= Cardinality(SettledOf(c, r)) +
                     Cardinality({i \in RemapsOf(c, r) : events'[i].c \notin Inserted})
      ]_vars

\* C5 amended: the same for every RpcReply or RpcError but the OutOfMemory
\* error, which is put on the queue of the requesting client by a step that
\* emits no RpcRemap and leaves the table as it was.
C5_AnswerHasRemapUnlessRejected ==
    [][/\ RemapIsEntry
       /\ \A c \in 1..MaxClients : \A r \in OrigIds :
              /\ Cardinality({i \in Answers(c) : /\ client_tx'[c].q[i].id = r
                                                 /\ client_tx'[c].q[i].error # "OutOfMemory"})
                     <= Cardinality(SettledOf(c, r)) +
                        Cardinality({i \in RemapsOf(c, r) : events'[i].c \notin Inserted})
              /\ \A i \in Answers(c) : client_tx'[c].q[i].error = "OutOfMemory" =>
                     /\ pc = "client" /\ cur = c
                     /\ events' = <<>>
                     /\ rpc_map' = rpc_map
                     /\ next_rpc_id \in DOMAIN rpc_map
      ]_vars

\* C5 witness: a client holds the OutOfMemory error of a rejected request and,
\* behind it, the device's reply that has just been restored
C5_Witness ==
    /\ "RpcRestore" \in EventNames
    /\ \E c \in 1..MaxClients :
           /\ Len(client_tx[c].q) = 2
           /\ client_tx[c].q[1].error = "OutOfMemory"
           /\ client_tx[c].q[2].payload = "RpcReply"


\* ------------------------------------------------ the head of an iteration
\* the step is the head of an iteration of the main loop
SweepStep == pc = "top" /\ pc' # "top"

\* the entries that process_rpc_timeouts finds expired
Expired == {w \in DOMAIN rpc_map : rpc_map[w].timeout < now}

\* the entries that the head of the iteration removes: the expired ones and,
\* while the device is absent, all the others as well
Due == IF device_present THEN Expired ELSE DOMAIN rpc_map

DueOf(c) == {w \in Due : rpc_map[w].client = c}

\* the error that the client of entry w is sent, with the given code
ErrorOf(w, code) ==
    LET e == rpc_map[w] IN
    Pkt("RpcError", e.id,
        SubSeq(e.route, Len(clients[e.client].scope) + 1, Len(e.route)), code, 0, e.uid)

\* the packets that the step has put on c's outbound queue
Appended(c) == {client_tx'[c].q[i] : i \in AppendedIdx(c)}

\* every registered client has its outbound queue open, with room for what the
\* head of the iteration owes it
RoomForDue ==
    \A c \in DOMAIN clients :
        DueOf(c) # {} =>
            client_tx[c].alive /\ Len(client_tx[c].q) + Cardinality(DueOf(c)) <= OutCap

\* what the head of an iteration does to the table, the index, the events and
\* the queues when it removes the entries Due with the codes given by code(w):
\* it panics only on a registered client's closed or full queue, and otherwise
\* removes exactly the entries Due, reports each as RpcTimeout and sends each
\* registered originator its errors and nobody else anything
SweepEffect(code(_)) ==
    /\ RoomForDue => pc' # "panicked"
    /\ pc' = "panicked" =>
           \E w \in Due : LET c == rpc_map[w].client IN
               /\ c \in DOMAIN clients
               /\ ~client_tx'[c].alive \/ Len(client_tx'[c].q) >= OutCap
    /\ pc' # "panicked" =>
           /\ DOMAIN rpc_map' = DOMAIN rpc_map \ Due
           /\ \A w \in DOMAIN rpc_map' : rpc_map'[w] = rpc_map[w]
           /\ \A t \in DOMAIN rpc_timeouts' : t >= now
           /\ {events'[i].a : i \in {j \in 1..Len(events') : events'[j].name = "RpcTimeout"}}
                  = Due
           /\ Cardinality({j \in 1..Len(events') : events'[j].name = "RpcTimeout"})
                  = Cardinality(Due)
           /\ \A c \in 1..MaxClients :
                  IF c \in DOMAIN clients
                  THEN /\ Len(client_tx'[c].q) = Len(client_tx[c].q) + Cardinality(DueOf(c))
                       /\ Appended(c) = {ErrorOf(w, code(w)) : w \in DueOf(c)}
                  ELSE client_tx'[c] = client_tx[c]

\* C6 as stated: a sweep with the device present removes every entry whose
\* deadline is less than or equal to the current time, reports it as
\* RpcTimeout and enqueues RpcError(original id, Timeout) for its originator,
\* and leaves the later entries untouched.
C6_SweepUpToNow ==
    [][(SweepStep /\ device_present) =>
          /\ pc' # "panicked"
          /\ DOMAIN rpc_map' = {w \in DOMAIN rpc_map : rpc_map[w].timeout > now}
          /\ \A w \in DOMAIN rpc_map' : rpc_map'[w] = rpc_map[w]
          /\ \A w \in DOMAIN rpc_map \ DOMAIN rpc_map' :
                 /\ \E i \in 1..Len(events') : events'[i] = Ev("RpcTimeout", w, 0, 0)
                 /\ \E i \in AppendedIdx(rpc_map[w].client) :
                        LET p == client_tx'[rpc_map[w].client].q[i] IN
                        /\ p.payload = "RpcError" /\ p.error = "Timeout"
                        /\ p.id = rpc_map[w].id /\ p.uid = rpc_map[w].uid
      ]_vars

\* C6 amended: a sweep with the device present removes exactly the entries
\* whose deadline is earlier than the current time and reports each as
\* RpcTimeout; each registered originator is sent RpcError(original id,
\* Timeout) on the stored route taken relative to its scope, an originator
\* that is no longer registered is sent nothing, and a registered originator
\* whose outbound queue is closed or full makes the thread panic; the entries
\* whose deadline is the current time or later are left untouched.
C6_SweepBeforeNow ==
    [][(SweepStep /\ device_present) =>
          LET code(w) == "Timeout" IN SweepEffect(code)
      ]_vars

\* C6 witness: a sweep has timed a request out and left another in the table
C6_Witness ==
    /\ pc = "select"
    /\ device_present
    /\ \E i \in 1..Len(events) : events[i].name = "RpcTimeout"
    /\ \E w \in DOMAIN rpc_map : rpc_map[w].timeout >= now
    /\ \E c \in DOMAIN clients :
           /\ client_tx[c].q # <<>>
           /\ client_tx[c].q[Len(client_tx[c].q)].error = "Timeout"


\* the step is the arm Err(Disconnected) of the device loop
DeviceLost == pc = "device" /\ dev_rx.q = <<>> /\ ~dev_rx.alive /\ pc' # "device"

\* the events of the step that report the outcome of a reconnection attempt
ReconnectEvents ==
    {i \in 1..Len(events') : events'[i].name \in {"SensorReconnected", "FailedToReconnect"}}

\* what the loop does when it finds the device's receive queue closed
LossNoticed ==
    DeviceLost =>
        /\ ~device_present'
        /\ events' = <<Ev("SensorDisconnected", 0, 0, 0)>>
        /\ rpc_map' = rpc_map
        /\ client_tx' = client_tx
        /\ pc' = "top"

\* C7 as stated: on the loss of the transport the device becomes absent and
\* SensorDisconnected is emitted; the next head of an iteration removes every
\* outstanding entry before it tries to reconnect, and sends every registered
\* originator RpcError(original id, Undefined).
C7_LossCancelsAsUndefined ==
    [][/\ LossNoticed
       /\ (SweepStep /\ ~device_present) =>
              LET code(w) == "Undefined" IN
              /\ SweepEffect(code)
              /\ \A i \in ReconnectEvents : \A j \in 1..Len(events') :
                     events'[j].name = "RpcTimeout" => j < i
      ]_vars

\* C7 amended: on the loss of the transport the device becomes absent and
\* SensorDisconnected is emitted; the next head of an iteration removes every
\* outstanding entry before it tries to reconnect, and sends every registered
\* originator RpcError(original id, Timeout) for an entry whose deadline is
\* earlier than the time of that sweep and RpcError(original id, Undefined)
\* for any other; an originator no longer registered is sent nothing, and a
\* registered originator whose queue is closed or full makes the thread panic.
C7_LossCancels ==
    [][/\ LossNoticed
       /\ (SweepStep /\ ~device_present) =>
              LET code(w) == IF rpc_map[w].timeout < now THEN "Timeout" ELSE "Undefined" IN
              /\ SweepEffect(code)
              /\ \A i \in ReconnectEvents : \A j \in 1..Len(events') :
                     events'[j].name = "RpcTimeout" => j < i
      ]_vars

\* C7 witness: after a loss of the transport the head of the iteration has
\* cancelled a request as Undefined and then reopened the device
C7_Witness ==
    /\ pc = "select"
    /\ \E i, j \in 1..Len(events) :
           i < j /\ events[i].name = "RpcTimeout" /\ events[j].name = "SensorReconnected"
    /\ \E c \in DOMAIN clients :
           /\ client_tx[c].q # <<>>
           /\ client_tx[c].q[Len(client_tx[c].q)].error = "Undefined"

\* the step is the arm Err(Disconnected) of the client loop
ClientLost == pc = "client" /\ client_rx[cur].q = <<>> /\ ~client_rx[cur].alive /\ pc' # "client"

\* C8: once a client has closed its channel ends the loop notices it, emits
\* ClientTerminated and removes the record at the head of the next iteration;
\* from the close on no step puts a packet on the client's queue and no step
\* stops the loop, whatever becomes of the client's requests in flight.
C8_CloseIsSurvived ==
    [][/\ ClientLost =>
              /\ events' = <<Ev("ClientTerminated", cur, 0, 0)>>
              /\ cur \in clients_to_drop'
              /\ pc' = "top"
       /\ (SweepStep /\ pc' = "select") => DOMAIN clients' = DOMAIN clients \ clients_to_drop
       /\ \A c \in 1..MaxClients :
              (~client_rx[c].alive /\ ~client_tx[c].alive) =>
                  /\ client_tx'[c] = client_tx[c]
                  /\ pc' # "panicked"
      ]_vars


\* ------------------------------------------------------------- the fan-out
\* the step is the arm Ok(Ok(pkt)) of the device loop for a packet that is
\* neither a reply nor an error
DeviceFansOut ==
    /\ DeviceTakes
    /\ Head(dev_rx.q).res = "Ok"
    /\ Head(dev_rx.q).pkt.payload \notin {"RpcReply", "RpcError"}

\* the absolute route lies inside the scope
Inside(scope, routing) ==
    /\ Len(scope) <= Len(routing)
    /\ \A i \in 1..Len(scope) : routing[i] = scope[i]

\* the forwarding policy as the specification words it
PolicyAdmits(client, payload) ==
    \/ payload \in {"RpcRequest", "RpcReply", "RpcError"}
    \/ payload = "StreamData" /\ client.forward_data
    \/ payload \notin {"RpcRequest", "RpcReply", "RpcError", "StreamData"}
           /\ client.forward_nonrpc

\* client c's outbound queue with the packet added, its route relative to c's scope
Delivered(c, pkt) ==
    Append(client_tx[c].q,
           [pkt EXCEPT !.routing = [i \in 1..(Len(pkt.routing) - Len(clients[c].scope)) |->
                                       pkt.routing[Len(clients[c].scope) + i]]])

\* C9: a packet fanned out while an admitting client's outbound queue is full
\* is dropped for that client only: the loop keeps running, every other
\* admitting client with room receives the packet, nothing else changes.
C9_FullQueueDropsPacket ==
    [][DeviceFansOut =>
          LET pkt == Head(dev_rx.q).pkt IN
          /\ pc' = "device"
          /\ rpc_map' = rpc_map /\ rpc_timeouts' = rpc_timeouts /\ clients' = clients
          /\ \A c \in DOMAIN clients :
                 client_tx'[c].q =
                     IF /\ Inside(clients[c].scope, pkt.routing)
                        /\ PolicyAdmits(clients[c], pkt.payload)
                        /\ Len(client_tx[c].q) < OutCap
                     THEN Delivered(c, pkt)
                     ELSE client_tx[c].q
      ]_vars

\* C10: a device packet that is neither a reply nor an error is put on a
\* client's outbound queue only if the client is registered, the packet's
\* absolute route lies inside the client's scope and the policy admits the
\* payload, and then with the route relative to the scope; when the step
\* does not stop the loop, every such client has received it.
C10_FanOutFiltered ==
    [][DeviceFansOut =>
          LET pkt == Head(dev_rx.q).pkt IN
          \A c \in 1..MaxClients :
              LET wanted == /\ c \in DOMAIN clients
                            /\ Inside(clients[c].scope, pkt.routing)
                            /\ PolicyAdmits(clients[c], pkt.payload)
              IN  /\ client_tx'[c] # client_tx[c] =>
                         wanted /\ client_tx'[c].q = Delivered(c, pkt)
                  /\ (wanted /\ pc' # "panicked") => client_tx'[c].q = Delivered(c, pkt)
      ]_vars

\* C10 witness: of two registered clients, one inside whose scope the route
\* lies holds a stream packet with the route made relative, and the other,
\* which does not forward stream data, holds nothing
C10_Witness ==
    /\ pc = "device"
    /\ \E c, d \in DOMAIN clients :
           /\ clients[c].scope = <<1>>
           /\ client_tx[c].q = <<Pkt("StreamData", 0, <<2>>, "-", 0, 0)>>
           /\ clients[d].scope = <<>> /\ ~clients[d].forward_data
           /\ client_tx[d].q = <<>>


\* -------------------------------------------------- client -> device steps
\* the step is the arm Ok(pkt) of the client loop: it takes the head of the
\* inbound queue of the client being drained
ClientTakes ==
    /\ pc = "client"
    /\ client_rx[cur].q # <<>>
    /\ client_rx'[cur].q = Tail(client_rx[cur].q)

\* the packet as the client put it, and its route made absolute
Taken == Head(client_rx[cur].q)
TakenRoute == clients[cur].scope \o Taken.routing

\* client cur's outbound queue with an error for the packet taken, on the
\* route the client used
Refused(code) ==
    Append(client_tx[cur].q, Pkt("RpcError", Taken.id, Taken.routing, code, 0, Taken.uid))

\* C11: a request whose wire id from the counter is already a key of the table
\* is not forwarded, leaves the table and the index as they were, and is
\* answered with RpcError(original id, OutOfMemory) on the request's route;
\* no step ever replaces the entry of a wire id that is in the table.
C11_CollisionRejected ==
    [][/\ (ClientTakes /\ Taken.payload = "RpcRequest" /\ next_rpc_id \in DOMAIN rpc_map) =>
              /\ port_tx' = <<>>
              /\ rpc_map' = rpc_map
              /\ rpc_timeouts' = rpc_timeouts
              /\ client_tx'[cur].q = Refused("OutOfMemory")
       /\ \A w \in DOMAIN rpc_map \cap DOMAIN rpc_map' : rpc_map'[w] = rpc_map[w]
      ]_vars

\* the step forwards a request to a device that is absent or whose port
\* refuses it: a request with a free wire id that the port does not take
ForwardFails ==
    /\ ClientTakes
    /\ Taken.payload = "RpcRequest"
    /\ next_rpc_id \notin DOMAIN rpc_map
    /\ port_tx' = <<>>

\* C12: when forwarding a request fails the table is as before the request,
\* the client receives RpcError(original id, Undefined), and the loop goes on.
C12_ForwardFailureReported ==
    [][ForwardFails =>
          /\ rpc_map' = rpc_map
          /\ rpc_timeouts' = rpc_timeouts
          /\ client_tx'[cur].q = Refused("Undefined")
          /\ pc' = "client"
      ]_vars


\* ------------------------------------------------------------ loop exits
\* the step ends the main loop
LoopStops == pc \notin {"start", "exited", "panicked"} /\ pc' \in {"exited", "panicked"}

LastEvent == events'[Len(events')].name

\* C13: once running, the loop stops only on a receive error other than a
\* protocol error (FatalError), on the closure of the new-client queue
\* (Exiting), or on a failed reconnect after the reconnect window has passed
\* (FailedToReconnect).
C13_ThreeExits ==
    [][LoopStops =>
          /\ events' # <<>>
          /\ \/ /\ LastEvent = "FatalError"
                /\ pc = "device" /\ dev_rx.q # <<>>
                /\ Head(dev_rx.q).res = "Err"
                /\ Head(dev_rx.q).err \notin {"ProtocolText", "ProtocolOther"}
             \/ /\ LastEvent = "Exiting"
                /\ pc = "new_client" /\ ~port_alive /\ new_client_queue = <<>>
             \/ /\ LastEvent = "FailedToReconnect"
                /\ pc = "top" /\ ~device_present /\ now > device_timeout
      ]_vars


\* the taken packet as the port must see it: absolute route, and for a request
\* the wire id in place of the client's id
TakenOnWire ==
    [Taken EXCEPT !.routing = TakenRoute,
                  !.id = IF Taken.payload = "RpcRequest" THEN next_rpc_id ELSE @]

\* the packets of client c that are still queued were put after every request
\* of c that has been forwarded, and in the order they are queued
QueuedInOrder(c) ==
    LET q == client_rx[c].q IN
    /\ \A i, j \in 1..Len(q) : i < j => q[i].uid < q[j].uid
    /\ \A i \in 1..Len(q), w \in DOMAIN rpc_map :
           rpc_map[w].client = c => rpc_map[w].uid < q[i].uid

\* C14: the proxy takes a client's packets from the head of its inbound queue,
\* one at a time, and what it hands to the port is that packet with the
\* client's scope prepended to its route; nothing else of a client reaches the
\* port, so a client's packets reach the device in the order it put them.
C14_ClientFifo ==
    /\ [](\A c \in 1..MaxClients : QueuedInOrder(c))
    /\ [][/\ (pc = "client" /\ port_tx' # <<>>) => ClientTakes
          /\ ClientTakes => port_tx' \in {<<>>, <<TakenOnWire>>}
          /\ (ClientTakes /\ device_present /\ Taken.payload # "RpcRequest"
                /\ port_tx' = <<>>) => UNCHANGED <<rpc_map, client_tx>>
         ]_vars

\* a stream packet has been forwarded below the client's scope while another
\* packet waits behind it
C14_Witness ==
    /\ pc = "client"
    /\ Len(port_tx) = 1
    /\ port_tx[1].payload = "StreamData"
    /\ port_tx[1].routing = <<1, 2>>
    /\ client_rx[cur].q # <<>>


PortCalled ==
    port_result' # port_result \/ Len(new_client_queue') > Len(new_client_queue)

\* C17: Port::port returns InvalidInput and enqueues nothing when rpc_timeout
\* (2 s when none is given) is below 100 ms or above 60 s; with any value from
\* 100 ms to 60 s it enqueues the client record with that timeout, unless the
\* proxy has dropped the new-client queue, and then it fails with BrokenPipe.
C17_TimeoutValidated ==
    [][PortCalled =>
          LET given == port_result'.rpc_timeout
              t == IF given.has THEN given.t ELSE 20
              res == port_result'.res
          IN  IF t < 1 \/ t > 600
              THEN res = "InvalidInput" /\ new_client_queue' = new_client_queue
              ELSE IF Running
              THEN /\ res = "Ok"
                   /\ Len(new_client_queue') = Len(new_client_queue) + 1
                   /\ SubSeq(new_client_queue', 1, Len(new_client_queue)) = new_client_queue
                   /\ new_client_queue'[Len(new_client_queue')].rpc_timeout = t
              ELSE res = "BrokenPipe" /\ new_client_queue' = new_client_queue
      ]_vars

\* a client with the longest timeout allowed is registered, and the latest
\* call asked for more than 60 s and was refused
C17_Witness ==
    /\ port_result = [res |-> "InvalidInput", rpc_timeout |-> Some(601)]
    /\ 1 \in DOMAIN clients /\ clients[1].rpc_timeout = 600
    /\ new_client_queue = <<>>


\* ------------------------------------------------------------ reconnection
\* the rate FSM of a device that has just been opened
FreshRateState ==
    IF rate_info.has /\ rate_info.target_bps # rate_info.default_bps
    THEN "WaitingForSession" ELSE "DoNothing"

\* C18: the loss of the transport leaves the device absent with
\* device_timeout = now + reconnect_timeout (now when none is configured);
\* every later head of an iteration that finds the device absent tries to
\* reopen it: on success SensorReconnected is emitted and the rate FSM starts
\* afresh, on failure the loop emits FailedToReconnect and exits when the time
\* is past device_timeout and goes on without an event otherwise.
C18_Reconnect ==
    [][/\ DeviceLost =>
              /\ ~device_present'
              /\ device_timeout' =
                     now + (IF reconnect_timeout.has THEN reconnect_timeout.t ELSE 0)
              /\ events' = <<Ev("SensorDisconnected", 0, 0, 0)>>
       /\ (SweepStep /\ ~device_present /\ pc' # "panicked") =>
              \/ /\ device_present'
                 /\ pc' = "select"
                 /\ events' # <<>> /\ LastEvent = "SensorReconnected"
                 /\ device' = [rate_change_state |-> FreshRateState,
                               last_rx |-> now, last_session |-> 0]
                 /\ dev_rx' = [alive |-> TRUE, q |-> <<>>]
              \/ /\ ~device_present'
                 /\ now > device_timeout
                 /\ pc' = "exited"
                 /\ events' # <<>> /\ LastEvent = "FailedToReconnect"
              \/ /\ ~device_present'
                 /\ ~(now > device_timeout)
                 /\ pc' = "select"
                 /\ ReconnectEvents = {}
       /\ (SweepStep /\ device_present) => (device_present' /\ ReconnectEvents = {})
       /\ (pc # "start" /\ device_timeout' # device_timeout) => DeviceLost
      ]_vars

\* the device has come back at the end of the reconnect window, on a port
\* whose target rate differs from its default
C18_Witness ==
    /\ pc = "select"
    /\ device_present
    /\ events # <<>> /\ events[Len(events)].name = "SensorReconnected"
    /\ device.rate_change_state = "WaitingForSession"
    /\ reconnect_timeout.has /\ now = device_timeout /\ now > 1


\* -------------------------------------------------------- the rate FSM
\* the step receives a session heartbeat from the device
HeartbeatTaken ==
    /\ pc = "device"
    /\ DeviceTakes
    /\ Head(dev_rx.q).res = "Ok"
    /\ Head(dev_rx.q).pkt.payload = "HeartbeatSession"

\* the rate state after a root session heartbeat s, by the state before
AfterSession(s) ==
    LET state == device.rate_change_state IN
    IF state = "WaitingForSession" THEN "QueryDeviceRate"
    ELSE IF state = "GaveUp" /\ s # device.last_session THEN "QueryDeviceRate"
    ELSE state

\* C19 as stated: a session heartbeat on the root route sets last_session in
\* every state of the rate FSM and moves WaitingForSession, and GaveUp when
\* the session has changed, to QueryDeviceRate; on another route it changes
\* neither.
C19_SessionEveryState ==
    [][HeartbeatTaken =>
          LET pkt == Head(dev_rx.q).pkt IN
          IF pkt.routing = <<>>
          THEN /\ device'.last_session = pkt.value
               /\ device'.rate_change_state = AfterSession(pkt.value)
          ELSE /\ device'.last_session = device.last_session
               /\ device'.rate_change_state = device.rate_change_state
      ]_vars

\* C19 amended: the same, except that in DoNothing the heartbeat is not looked
\* at and last_session stays as it is.
C19_SessionUnlessStatic ==
    [][HeartbeatTaken =>
          LET pkt == Head(dev_rx.q).pkt IN
          IF pkt.routing = <<>> /\ device.rate_change_state # "DoNothing"
          THEN /\ device'.last_session = pkt.value
               /\ device'.rate_change_state = AfterSession(pkt.value)
          ELSE /\ device'.last_session = device.last_session
               /\ device'.rate_change_state = device.rate_change_state
      ]_vars

\* a negotiation that had given up has been restarted by the heartbeat of a
\* new session
C19_Witness ==
    /\ pc = "device"
    /\ device.rate_change_state = "QueryDeviceRate"
    /\ device.last_session = 2
    /\ next_rpc_id > 0

\* the step receives the device's answer to a request of the proxy itself
InternalAnswer ==
    /\ pc = "device"
    /\ DeviceAnswers
    /\ Head(dev_rx.q).pkt.id \in DOMAIN rpc_map
    /\ rpc_map[Head(dev_rx.q).pkt.id].client = 0
    /\ device_present

\* C20: in WaitingDeviceRate a reply carrying the rate v gives up, with
\* AutoRateIncompatible(v) and AutoRateGaveUp, when v = 0 or v is more than
\* 1.5 % of v away from target_bps, and goes to SetDeviceRate with
\* AutoRateCompatible(v) otherwise; an error gives up with AutoRateRpcError
\* and AutoRateGaveUp.
C20_RateNearAnswer ==
    [][(InternalAnswer /\ device.rate_change_state = "WaitingDeviceRate") =>
          LET pkt == Head(dev_rx.q).pkt
              v == pkt.value
              target == rate_info.target_bps
              off == IF target >= v THEN target - v ELSE v - target
              restored == Ev("RpcRestore", pkt.id, 0, rpc_map[pkt.id].id)
          IN  IF pkt.payload = "RpcError"
              THEN /\ device'.rate_change_state = "GaveUp"
                   /\ events' = <<restored, Ev("AutoRateRpcError", 0, 0, 0),
                                  Ev("AutoRateGaveUp", 0, 0, 0)>>
              ELSE IF v < 0 THEN pc' = "panicked"
              ELSE IF v = 0 \/ 1000 * off > 15 * v
              THEN /\ device'.rate_change_state = "GaveUp"
                   /\ events' = <<restored, Ev("AutoRateIncompatible", v, 0, 0),
                                  Ev("AutoRateGaveUp", 0, 0, 0)>>
              ELSE /\ device'.rate_change_state = "SetDeviceRate"
                   /\ events' = <<restored, Ev("AutoRateCompatible", v, 0, 0)>>
      ]_vars

\* the device has offered a rate exactly 1.5 % below the target and the
\* negotiation goes on
C20_Witness ==
    /\ pc = "device"
    /\ device.rate_change_state = "SetDeviceRate"
    /\ Len(events) = 2
    /\ events[2] = Ev("AutoRateCompatible", 200, 0, 0)
    /\ rate_info.target_bps = 203


\* C28: a packet of a client that is not an RpcRequest goes to the port with
\* nothing but its route changed (made absolute), or, when the device is
\* absent or the port refuses it, nowhere; either way the step leaves the
\* table, the index, the counter and every client queue as they were and
\* emits no event.
C28_OtherPayloadsPassThrough ==
    [][(ClientTakes /\ Taken.payload # "RpcRequest") =>
          /\ port_tx' \in {<<>>, <<[Taken EXCEPT !.routing = TakenRoute]>>}
          /\ (~device_present => port_tx' = <<>>)
          /\ rpc_map' = rpc_map
          /\ rpc_timeouts' = rpc_timeouts
          /\ next_rpc_id' = next_rpc_id
          /\ events' = <<>>
          /\ client_tx' = client_tx
          /\ pc' = "client"
      ]_vars

\* the only packet the client has put, a stream packet, has been taken while
\* the device was absent: it is gone, and nothing else has changed
C28_Witness ==
    /\ pc = "client"
    /\ ~device_present
    /\ nsent = 1
    /\ client_rx[cur].q = <<>>
    /\ port_tx = <<>>
    /\ events = <<>>
    /\ next_rpc_id = 0
    /\ client_tx[cur].q = <<>>


\* C25: every RpcRequest taken from a client advances the counter by one
\* modulo the number of wire ids (the last id is followed by 0), whether it is
\* forwarded, rejected or not sent, and a forwarded request carries the value
\* the counter had; no other packet changes the counter.
C25_CounterWraps ==
    [][ClientTakes =>
          IF Taken.payload = "RpcRequest"
          THEN /\ next_rpc_id' = (next_rpc_id + 1) % WireIds
               /\ port_tx' # <<>> => port_tx'[1].id = next_rpc_id
          ELSE next_rpc_id' = next_rpc_id
      ]_vars


C22_AnyReplySetsRate ==
    [][(/\ InternalAnswer
        /\ device.rate_change_state = "WaitingNewRate"
        /\ Head(dev_rx.q).pkt.payload = "RpcReply") =>
          LET pkt == Head(dev_rx.q).pkt
              restored == Ev("RpcRestore", pkt.id, 0, rpc_map[pkt.id].id)
              set == Ev("SetRate", rate_info.target_bps, 0, 0)
          IN  /\ pc' = "device"
              /\ \/ /\ device'.rate_change_state = "RateChanged"
                    /\ events' = <<restored, set>>
                 \/ /\ device'.rate_change_state = "GaveUp"
                    /\ events' = <<restored, set, Ev("AutoRateGaveUp", 0, 0, 0)>>
      ]_vars


\* ------------------------------------------------ rate upkeep with clients
\* the step is the head of an iteration that runs the autonegotiation upkeep
\* with the rate FSM in the given state
UpkeepIn(state) ==
    /\ SweepStep
    /\ device_present
    /\ device.rate_change_state = state

\* the entries that the sweep of the step leaves in the table
LeftBySweep == DOMAIN rpc_map \ Expired

\* C21: in SetDeviceRate the request dev.port.rate(target_bps) is sent only
\* in an iteration in which the table is empty: then AutoRateSet(target) is
\* emitted and the FSM moves to WaitingNewRate; when the table is not empty
\* the proxy emits AutoRateWait, sends nothing and stays in SetDeviceRate.
\* When AutoRateSet is emitted the request is the only entry of the table.
C21_SetRateWhenIdle ==
    [][UpkeepIn("SetDeviceRate") =>
          IF LeftBySweep = {}
          THEN /\ pc' = "select"
               /\ Len(port_tx') = 1
               /\ port_tx'[1].payload = "RpcRequest"
               /\ port_tx'[1].error = "dev.port.rate"
               /\ port_tx'[1].value = rate_info.target_bps
               /\ port_tx'[1].id = next_rpc_id
               /\ events'[Len(events')] = Ev("AutoRateSet", rate_info.target_bps, 0, 0)
               /\ device'.rate_change_state = "WaitingNewRate"
               /\ DOMAIN rpc_map' = {next_rpc_id}
               /\ rpc_map'[next_rpc_id].client = 0
          ELSE /\ pc' = "select"
               /\ port_tx' = <<>>
               /\ events'[Len(events')] = Ev("AutoRateWait", 0, 0, 0)
               /\ "AutoRateSet" \notin EventNames'
               /\ device'.rate_change_state = "SetDeviceRate"
               /\ DOMAIN rpc_map' = LeftBySweep
      ]_vars

\* C23: in RateChanged, at an upkeep step with more than 1 s gone since
\* last_rx, the proxy emits NoData, sets the port back to default_bps, emits
\* SetRate(default_bps) and moves the FSM to GaveUp; while less than 1 s has
\* gone the FSM stays in RateChanged; every packet and every text protocol
\* error taken from the device in RateChanged sets last_rx to the current time.
C23_NoDataGivesUp ==
    [][/\ UpkeepIn("RateChanged") =>
             IF now - device.last_rx > NoDataLimit
             THEN /\ pc' = "select"
                  /\ Len(events') >= 2
                  /\ events'[Len(events') - 1] = Ev("NoData", 0, 0, 0)
                  /\ events'[Len(events')] = Ev("SetRate", rate_info.default_bps, 0, 0)
                  /\ device'.rate_change_state = "GaveUp"
             ELSE /\ pc' = "select"
                  /\ "NoData" \notin EventNames'
                  /\ device' = device
       /\ (/\ pc = "device"
           /\ device_present
           /\ device.rate_change_state = "RateChanged"
           /\ dev_rx.q # <<>>
           /\ Len(dev_rx'.q) < Len(dev_rx.q)
           /\ (Head(dev_rx.q).res = "Ok" \/ Head(dev_rx.q).err = "ProtocolText")
           /\ pc' # "panicked")
              => device'.last_rx = now
      ]_vars


\* the expired entries that belong to the proxy itself
InternalExpired == {w \in Expired : rpc_map[w].client = 0}

\* C27: when a request of the proxy itself (client id 0) passes its deadline
\* the sweep reports it as RpcTimeout and removes the entry, delivers nothing
\* to any client for it and leaves the rate FSM in the state it was in,
\* WaitingDeviceRate or WaitingNewRate; an answer restored for client 0 goes
\* to the internal handler and to no client; no client has the id 0.
\* (The sweep panics only on the closed or full queue of a registered client
\* that is owed an error by the same sweep, never on an internal entry.)
C27_InternalTimeout ==
    [][/\ 0 \notin DOMAIN clients
       /\ next_client_id >= 1
       /\ (SweepStep /\ device_present /\ InternalExpired # {}) =>
              /\ RoomForDue => pc' = "select"
       /\ (SweepStep /\ device_present /\ InternalExpired # {} /\ pc' # "panicked") =>
              /\ \A w \in InternalExpired :
                     /\ \E i \in 1..Len(events') : events'[i] = Ev("RpcTimeout", w, 0, 0)
                     /\ w \notin DOMAIN rpc_map'
              /\ \A t \in DOMAIN rpc_timeouts' : rpc_timeouts'[t] \cap InternalExpired = {}
              /\ \A c \in 1..MaxClients :
                     IF c \in DOMAIN clients
                     THEN /\ Len(client_tx'[c].q) = Len(client_tx[c].q) + Cardinality(DueOf(c))
                          /\ Appended(c) = {ErrorOf(w, "Timeout") : w \in DueOf(c)}
                     ELSE client_tx'[c] = client_tx[c]
              /\ device.rate_change_state \in {"WaitingDeviceRate", "WaitingNewRate"}
              /\ device'.rate_change_state = device.rate_change_state
       /\ InternalAnswer =>
              /\ client_tx' = client_tx
              /\ Head(dev_rx.q).pkt.id \notin DOMAIN rpc_map'
              /\ events'[1] = Ev("RpcRestore", Head(dev_rx.q).pkt.id, 0,
                                 rpc_map[Head(dev_rx.q).pkt.id].id)
      ]_vars

\* the set-rate request has timed out while a client was registered: the
\* table is empty again, the FSM still waits and the client has got nothing
C27_Witness ==
    /\ pc = "select"
    /\ events # <<>>
    /\ events[Len(events)].name = "RpcTimeout"
    /\ device_present
    /\ device.rate_change_state = "WaitingNewRate"
    /\ DOMAIN rpc_map = {}
    /\ 1 \in DOMAIN clients
    /\ nsent = 1
    /\ Len(client_tx[1].q) = 1


\* C24: each iteration drains one ready source until it is empty, and so no
\* source starves: a packet in the device's receive queue, a pending new
\* client, a packet in the queue of a client and an expired deadline are each
\* handled in the end, whatever the clients put on their queues meanwhile.
C24_NoStarvation ==
    /\ (device_present /\ dev_rx.q # <<>>) ~> (pc = "device" \/ ~Running)
    /\ (new_client_queue # <<>>) ~> (pc = "new_client" \/ ~Running)
    /\ \A c \in 1..MaxClients :
           (c \in DOMAIN clients /\ client_rx[c].q # <<>>)
               ~> ((pc = "client" /\ cur = c) \/ ~Running)
    /\ (Expired # {}) ~> (Expired = {} \/ ~Running)

====
